---- MODULE Spec2Model ----
(***************************************************************************)
(* Model of the MaxTri sweep-line arrangement engine (src/src/maxtri.cc).  *)
(*                                                                         *)
(* Coordinates are exact rationals (a pair <<n, d>> with d > 0, reduced),  *)
(* the idealisation of the coordinate type the engine is instantiated     *)
(* with.  The sweep status is the in-order sequence of the ordered         *)
(* multiset; a search in it is a descent of a search tree, so on a         *)
(* sequence that the comparator does not sort the result is any position   *)
(* that the two neighbours of the position agree with.                     *)
(***************************************************************************)
EXTENDS Integers, Sequences, FiniteSets, TLC

VARIABLES tris, status, sweep, queue, intersections, graph, solutions,
          pc, cur, iter, pos, processed, ops, before, chosen, runs, ref,
          handled

\* VoronoiDiagram (util.h): the two point lists, the user-to-site map, the
\* number of users the last build() mapped, and one edge_iterator (its
\* members first and current) over the edge list of a cell (cell is the
\* number of edges of that list, visited the edges the iterator has stood
\* on).
VARIABLES sites, users, u2s, built, cell, it_first, it_current, visited

\* ConnectedComponents (components.h): the rects, the queue of horizontal
\* edges and the graph vertices.
VARIABLES rects, edges_y, vertexes

\* SolutionCell (components.h): its members, what the last call returned
\* ("void" for a call that returns nothing), and the non-negative values
\* set_bot was given, in the order of the calls.
VARIABLES top_, bot_, left_, right_, hit_left_, hit_right_, source_rects_,
          ret, given

\* SolutionCompare (components.h): two solution edges and the result of
\* the last comparison of the two, <<operator, value>>.
VARIABLES s1, s2, result

\* l23_tree (l23tree.h): the root of the tree, an internal node that is used
\* on its own, the keys insert_unique has put in, and whether the program
\* is still in a defined state.
VARIABLES root_, node, inserted, tstate

maxtri_vars == <<tris, status, sweep, queue, intersections, graph, solutions,
                 pc, cur, iter, pos, processed, ops, before, chosen, runs, ref,
                 handled>>
vd_vars == <<sites, users, u2s, built, cell, it_first, it_current, visited>>
cc_vars == <<rects, edges_y, vertexes>>
sc_vars == <<top_, bot_, left_, right_, hit_left_, hit_right_, source_rects_,
             ret, given>>
se_vars == <<s1, s2, result>>
tree_vars == <<root_, node, inserted, tstate>>

\* The variables of the components next to the MaxTri engine.
other_vars == <<vd_vars, cc_vars, sc_vars, se_vars, tree_vars>>

vars == <<maxtri_vars, other_vars>>

\* A component that a specification does not exercise stays as it is here.
NoDiagram ==
  /\ sites = <<>> /\ users = <<>> /\ u2s = <<>> /\ built = 0
  /\ cell = 0 /\ it_first = 0 /\ it_current = 0 /\ visited = <<>>

NoComponents == rects = <<>> /\ edges_y = <<>> /\ vertexes = <<>>

NoCell ==
  /\ top_ = -1 /\ bot_ = -1 /\ left_ = -1 /\ right_ = -1
  /\ hit_left_ = FALSE /\ hit_right_ = FALSE /\ source_rects_ = {}
  /\ ret = "void" /\ given = <<>>

NoCompare == s1 = <<>> /\ s2 = <<>> /\ result = <<>>

NoTree == root_ = <<>> /\ node = <<>> /\ inserted = {} /\ tstate = "off"

NoEngine ==
  /\ tris = <<>> /\ status = <<>> /\ sweep = <<>> /\ queue = <<>>
  /\ intersections = {} /\ graph = {} /\ solutions = <<>> /\ pc = "off"
  /\ cur = <<>> /\ iter = <<>> /\ pos = 0 /\ processed = <<>> /\ ops = <<>>
  /\ before = <<>> /\ chosen = <<>> /\ runs = 0 /\ ref = <<>> /\ handled = <<>>

(***************************************************************************)
(* Bounds of the model and the pool of input triangles.                    *)
(***************************************************************************)
MaxTris == 3

\* The number of runs one engine instance is taken through.
MaxRuns == 2

\* Input triangles, three integer points <<x, y>> each, in the order the
\* caller gives them.  No edge is horizontal.  1, 2, 3 cross one another;
\* 4 is disjoint from all others; 5 and 6 share the edge from <<0, 0>> to
\* <<0, 4>> and nothing else; 7 crosses that shared edge at <<0, 1>> and
\* <<0, 3>>, the heights of two vertices of 4; 8 lies inside 1.
Pool == <<
  << <<0, 0>>, <<4, 2>>, <<1, 6>> >>,
  << <<4, 0>>, <<0, 3>>, <<5, 5>> >>,
  << <<2, 1>>, <<6, 4>>, <<0, 5>> >>,
  << <<-6, 1>>, <<-7, 2>>, <<-6, 3>> >>,
  << <<0, 0>>, <<0, 4>>, <<-3, 2>> >>,
  << <<0, 0>>, <<0, 4>>, <<3, 2>> >>,
  << <<1, 0>>, <<-1, 2>>, <<1, 4>> >>,
  << <<1, 1>>, <<2, 3>>, <<1, 4>> >>
>>

(***************************************************************************)
(* Exact rational arithmetic.                                              *)
(***************************************************************************)
Abs(n) == IF n < 0 THEN -n ELSE n

RECURSIVE GCD(_, _)
GCD(a, b) == IF b = 0 THEN a ELSE GCD(b, a % b)

\* The reduced fraction n/d, d # 0.
Frac(n, d) ==
  LET g == GCD(Abs(n), Abs(d))
      s == IF d < 0 THEN -1 ELSE 1
  IN  <<(s * n) \div g, (s * d) \div g>>

FLess(a, b) == a[1] * b[2] < b[1] * a[2]

FInt(n) == <<n, 1>>

\* A point is <<X, Y>>, two reduced fractions.
PointOf(p) == <<FInt(p[1]), FInt(p[2])>>

\* Sweep order of points: y ascending, ties x ascending.
PointLess(p, q) == FLess(p[2], q[2]) \/ (p[2] = q[2] /\ FLess(p[1], q[1]))

(***************************************************************************)
(* Triangles and edges.                                                    *)
(***************************************************************************)
TOP == 0
MIDDLE == 1
BOTTOM == 2

IntPointLess(p, q) == p[2] < q[2] \/ (p[2] = q[2] /\ p[1] < q[1])

\* The triangle constructor: the three points ranked TOP, MIDDLE, BOTTOM
\* under the sweep order.
Triangle(t) ==
  LET lo == CHOOSE p \in {t[1], t[2], t[3]} :
              \A q \in {t[1], t[2], t[3]} : ~IntPointLess(q, p)
      hi == CHOOSE p \in {t[1], t[2], t[3]} :
              \A q \in {t[1], t[2], t[3]} : ~IntPointLess(p, q)
      md == CHOOSE p \in {t[1], t[2], t[3]} : p # lo /\ p # hi
  IN  <<lo, md, hi>>

Ids == DOMAIN tris

\* An edge is <<id, k>>: k = 0 is TOP->MIDDLE, k = 1 is the spanning edge
\* TOP->BOTTOM, k = 2 is MIDDLE->BOTTOM.
Edges == Ids \X {0, 1, 2}

First(e) == IF e[2] = 2 THEN tris[e[1]][2] ELSE tris[e[1]][1]
Second(e) == IF e[2] = 0 THEN tris[e[1]][2] ELSE tris[e[1]][3]

\* tri_point_type::top_edge and bottom_edge of the vertex of rank h.
top_edge(t, h) == IF h = TOP THEN <<t, 0>> ELSE IF h = MIDDLE THEN <<t, 0>> ELSE <<t, 1>>
bottom_edge(t, h) == IF h = TOP THEN <<t, 1>> ELSE <<t, 2>>

(***************************************************************************)
(* The status comparator and the segment classification.                   *)
(***************************************************************************)
current_y == sweep[2]

\* x position of the edge's line on the horizontal line at height Y, a
\* fraction with a positive denominator (not reduced).
XAt(e, Y) ==
  LET p == First(e)
      q == Second(e)
      dy == q[2] - p[2]
      dx == q[1] - p[1]
  IN  <<p[1] * dy * Y[2] + (Y[1] - p[2] * Y[2]) * dx, dy * Y[2]>>

isect_sweep(e, K, Y) == <<K[e], Y>>

\* The sort keys of the edges on the sweep line at height Y.
sort_keys(Y) == [e \in Edges |-> XAt(e, Y)]

\* status_compare: strictly left of, by the sort keys K.
status_compare(a, b, K) == FLess(K[a], K[b])

\* event_point_ycompare: p comes strictly after q in the sweep order.
event_point_ycompare(p, q) == PointLess(q, p)

Cross(ux, uy, vx, vy) == ux * vy - uy * vx

Max2(a, b) == IF a < b THEN b ELSE a
Min2(a, b) == IF a < b THEN a ELSE b

\* intersect: <<code, point>>; "0" none, "v" an endpoint lies on the other
\* segment, "e" collinear overlap, "1" proper crossing at point.
intersect(a, b) ==
  LET A == First(a)
      B == Second(a)
      C == First(b)
      D == Second(b)
      denom == Cross(B[1] - A[1], B[2] - A[2], D[1] - C[1], D[2] - C[2])
      snum == Cross(C[1] - A[1], C[2] - A[2], D[1] - C[1], D[2] - C[2])
      tnum == Cross(C[1] - A[1], C[2] - A[2], B[1] - A[1], B[2] - A[2])
      sgn == IF denom < 0 THEN -1 ELSE 1
      sn == sgn * snum
      tn == sgn * tnum
      dn == sgn * denom
      pt == <<Frac(A[1] * denom + snum * (B[1] - A[1]), denom),
              Frac(A[2] * denom + snum * (B[2] - A[2]), denom)>>
      none == <<<<0, 1>>, <<0, 1>>>>
  IN  IF denom = 0
      THEN IF Cross(B[1] - A[1], B[2] - A[2], C[1] - A[1], C[2] - A[2]) = 0
              /\ Max2(A[2], C[2]) <= Min2(B[2], D[2])
           THEN <<"e", none>>
           ELSE <<"0", none>>
      ELSE IF 0 < sn /\ sn < dn /\ 0 < tn /\ tn < dn THEN <<"1", pt>>
      ELSE IF 0 <= sn /\ sn <= dn /\ 0 <= tn /\ tn <= dn THEN <<"v", pt>>
      ELSE <<"0", none>>

(***************************************************************************)
(* The intersection index and the event queue (intersect_range).           *)
(***************************************************************************)
\* intersect of every pair of edges of the input.
classify == [p \in Edges \X Edges |-> intersect(p[1], p[2])]

\* An event is <<type, point, triangle id, rank>>; an intersection event
\* carries -1 for the last two.
TriEvent(t, h) == <<"TRIPOINT", PointOf(tris[t][h + 1]), t, h>>
IxEvent(pt) == <<"INTERSECTION", pt, -1, -1>>

\* actionable without the test against the current point.
actionable_anywhere(code, pt, current_point) ==
  "0" # code /\ "v" # code /\ "e" # code

\* The test that makes a classified pair actionable.
actionable(code, pt, current_point) ==
  /\ "0" # code /\ "v" # code /\ "e" # code
  /\ event_point_ycompare(pt, current_point)

\* The index is a set of entries [point, segs], one intersection event each.
Points(ix) == {x.point : x \in ix}
Members(ix, pt) == UNION {x.segs : x \in {y \in ix : y.point = pt}}

\* record_index that starts the entry of pt afresh on every discovery.
record_index_replace(ix, pt, segment, other) ==
  {x \in ix : x.point # pt} \cup {[point |-> pt, segs |-> {segment, other}]}

\* record_index that records the checked segment without its partner.
record_index_own(ix, pt, segment, other) ==
  IF pt \in Points(ix)
  THEN {IF x.point = pt THEN [x EXCEPT !.segs = @ \cup {segment}] ELSE x : x \in ix}
  ELSE ix \cup {[point |-> pt, segs |-> {segment}]}

\* The index after the pair (segment, other) was found crossing at pt.
record_index(ix, pt, segment, other) ==
  IF pt \in Points(ix)
  THEN {IF x.point = pt THEN [x EXCEPT !.segs = @ \cup {segment, other}] ELSE x : x \in ix}
  ELSE ix \cup {[point |-> pt, segs |-> {segment, other}]}

\* record_queue that queues nothing.
record_queue_never(ix, q, pt) == q

\* record_queue that queues the event on every discovery.
record_queue_always(ix, q, pt) == Append(q, IxEvent(pt))

\* The queue after the pair was found crossing at pt: the event is queued
\* on the first discovery of the point only.
record_queue(ix, q, pt) ==
  IF pt \in Points(ix) THEN q ELSE Append(q, IxEvent(pt))

\* intersect_range over the edges of rng, in that order; yields <<ix, q>>.
\* The state a status operation works in: the sort keys K of the comparator
\* at the sweep height Y, and the classification X of the pairs of edges.
Env(Y, X) == [K |-> sort_keys(Y), Y |-> Y, X |-> X]

\* One iteration of the loop of intersect_range, on iq = <<ix, q>>.
intersect_one(segment, other, iq, env) ==
  LET r == env.X[<<segment, other>>]
  IN  IF actionable(r[1], r[2], isect_sweep(segment, env.K, env.Y))
      THEN <<record_index(iq[1], r[2], segment, other), record_queue(iq[1], iq[2], r[2])>>
      ELSE iq

RECURSIVE intersect_range(_, _, _, _, _)
intersect_range(segment, rng, ix, q, env) ==
  IF rng = <<>> THEN <<ix, q>>
  ELSE LET iq == intersect_one(segment, Head(rng), <<ix, q>>, env)
       IN  intersect_range(segment, Tail(rng), iq[1], iq[2], env)

(***************************************************************************)
(* The sweep status: an ordered multiset searched by tree descent.         *)
(***************************************************************************)
InsertAt(st, j, e) == SubSeq(st, 1, j - 1) \o <<e>> \o SubSeq(st, j, Len(st))
RemoveAt(st, i) == SubSeq(st, 1, i - 1) \o SubSeq(st, i + 1, Len(st))
End(st) == Len(st) + 1

\* The elements st[hi], st[hi - 1], ..., st[lo].
RevRange(st, lo, hi) == [i \in 1..(hi - lo + 1) |-> st[hi - i + 1]]

\* Positions a lower_bound descent for key k can end at.
lower_bound(st, k, K) ==
  LET c == [i \in 1..Len(st) |-> status_compare(st[i], k, K)]
  IN  {i \in 1..End(st) : (i = 1 \/ c[i - 1]) /\ (i = End(st) \/ ~c[i])}

\* Positions an upper_bound descent (and a multiset insert) can end at.
upper_bound(st, k, K) ==
  LET c == [i \in 1..Len(st) |-> status_compare(k, st[i], K)]
  IN  {j \in 1..End(st) : (j = 1 \/ ~c[j - 1]) /\ (j = End(st) \/ c[j])}

\* The scan of the equal range that takes its first entry, whichever edge it is.
locate_first(st, e, lb, ub) == IF lb < ub THEN lb ELSE 0

\* The position of e in st, 0 when it is not inside lb..(ub - 1).
locate(st, e, lb, ub) ==
  IF \E i \in lb..(ub - 1) : st[i] = e
  THEN CHOOSE i \in lb..(ub - 1) : st[i] = e
  ELSE 0

\* find_unique: the position of e inside its equal range, 0 for end().
find_unique(st, e, K) ==
  {locate(st, e, lb, ub) : lb \in lower_bound(st, e, K), ub \in upper_bound(st, e, K)}

\* An outcome of a status operation.
Outcome(st, ix, q, ok, chk) == [st |-> st, ix |-> ix, q |-> q, ok |-> ok, chk |-> chk]

\* The edges from left_begin to left_end: from the entry before lb down to
\* left_last (down to the first entry when left_last is end()).
left_range(st, lb, left_last) ==
  RevRange(st, IF left_last = End(st) THEN 1 ELSE left_last, lb - 1)

\* The edges from right_begin up to right_end.
right_range(st, ub, right_end) == SubSeq(st, ub, right_end - 1)

\* The left half of check_intersections, the equal range starting at lb.
check_left(center, st, ix, q, env, lb) ==
  IF lb = End(st) \/ lb = 1 THEN {<<ix, q, TRUE>>}
  ELSE {IF left_last # End(st) /\ left_last > lb
        THEN <<ix, q, FALSE>>
        ELSE intersect_range(center, left_range(st, lb, left_last), ix, q, env) \o <<TRUE>>
        : left_last \in lower_bound(st, st[lb - 1], env.K)}

\* The right half of check_intersections, the equal range ending at ub.
check_right(center, st, ix, q, env, ub) ==
  IF ub = End(st) THEN {<<ix, q, TRUE>>}
  ELSE {IF right_end < ub
        THEN <<ix, q, FALSE>>
        ELSE intersect_range(center, right_range(st, ub, right_end), ix, q, env) \o <<TRUE>>
        : right_end \in upper_bound(st, st[ub], env.K)}

\* check_intersections(center): the outcomes <<ix, q, ok>>.
check_intersections(center, st, ix, q, env) ==
  UNION {UNION {UNION {
      IF l[3] THEN check_right(center, st, l[1], l[2], env, ub) ELSE {l}
    : l \in check_left(center, st, ix, q, env, lb)}
    : ub \in upper_bound(st, center, env.K)}
    : lb \in lower_bound(st, center, env.K)}

\* check_intersections for each position of cs in turn, while all is well.
RECURSIVE check_each(_, _, _, _, _)
check_each(cs, st, ix, q, env) ==
  IF cs = <<>> THEN {<<ix, q, TRUE>>}
  ELSE UNION {IF r[3] THEN check_each(Tail(cs), st, r[1], r[2], env) ELSE {r}
              : r \in check_intersections(st[Head(cs)], st, ix, q, env)}

\* The positions remove_edge checks after it erased position i of a status
\* that now has n entries: elb, then eub.
neighbours(i, n) ==
  LET elb == IF i # 1 THEN i - 1 ELSE i
      eub == i
  IN  (IF elb # n + 1 THEN <<elb>> ELSE <<>>)
        \o (IF eub # n + 1 /\ elb # eub THEN <<eub>> ELSE <<>>)

\* insert_edge(e): the outcomes.
insert_edge(e, st, ix, q, env) ==
  UNION {LET st1 == InsertAt(st, j, e)
         IN  {Outcome(st1, r[1], r[2], r[3], <<e>>) :
                r \in check_each(<<j>>, st1, ix, q, env)}
         : j \in upper_bound(st, e, env.K)}

\* remove_edge without the adjacency check of the neighbours.
remove_edge_unchecked(e, st, ix, q, env) ==
  {IF i = 0 THEN Outcome(st, ix, q, FALSE, <<>>)
   ELSE Outcome(RemoveAt(st, i), ix, q, TRUE, <<>>)
   : i \in find_unique(st, e, env.K)}

\* remove_edge(e): the outcomes.
remove_edge(e, st, ix, q, env) ==
  UNION {IF i = 0 THEN {Outcome(st, ix, q, FALSE, <<>>)}
         ELSE LET st1 == RemoveAt(st, i)
                  cs == neighbours(i, Len(st1))
              IN  {Outcome(st1, r[1], r[2], r[3], [k \in DOMAIN cs |-> st1[cs[k]]]) :
                     r \in check_each(cs, st1, ix, q, env)}
         : i \in find_unique(st, e, env.K)}

(***************************************************************************)
(* Clique extraction (finalize).                                           *)
(***************************************************************************)
Adjacent(g, u, v) == {u, v} \in g

\* add_edge on the undirected graph.
add_edge(u, v, g) == g \cup {{u, v}}

\* filter_unconnected_vertices: the members of c connected to v.
filter_unconnected_vertices(g, v, c) == SelectSeq(c, LAMBDA w : Adjacent(g, v, w))

\* The smallest clique bron_kerbosch_all_cliques(g, vis) reports.
MinCliqueSize == 2

\* bron_kerbosch_all_cliques: the sequence of cliques handed to the visitor.
RECURSIVE extend_clique(_, _, _, _)
RECURSIVE clique_loop(_, _, _, _)
extend_clique(g, clique, cands, nots) ==
  IF \E i \in 1..Len(nots) : \A j \in 1..Len(cands) : Adjacent(g, nots[i], cands[j])
  THEN <<>>
  ELSE clique_loop(g, clique, cands, nots)

clique_loop(g, clique, cands, nots) ==
  IF cands = <<>> THEN <<>>
  ELSE LET candidate == Head(cands)
           rest == Tail(cands)
           cl == Append(clique, candidate)
           new_cands == filter_unconnected_vertices(g, candidate, rest)
           new_nots == filter_unconnected_vertices(g, candidate, nots)
           found == IF new_cands = <<>> /\ new_nots = <<>>
                    THEN IF Len(cl) >= MinCliqueSize THEN <<cl>> ELSE <<>>
                    ELSE extend_clique(g, cl, new_cands, new_nots)
       IN  found \o clique_loop(g, clique, rest, Append(nots, candidate))

bron_kerbosch_all_cliques(g, n) ==
  extend_clique(g, <<>>, [i \in 1..n |-> i - 1], <<>>)

Range(f) == {f[i] : i \in DOMAIN f}

\* clique_visitor::clique that also takes a clique of equal size.
clique_visit_equal(m, c) ==
  IF Len(c) >= m[2] THEN <<Range(c), Len(c)>> ELSE m

\* clique_visitor::clique on the visitor state m = <<max_clique, max_depth>>.
clique_visit(m, c) ==
  IF Len(c) > m[2] THEN <<Range(c), Len(c)>> ELSE m

RECURSIVE visit_all(_, _)
visit_all(m, cs) ==
  IF cs = <<>> THEN m ELSE visit_all(clique_visit(m, Head(cs)), Tail(cs))

\* The index set finalize pulls the solution triangles from.
max_clique(g, n) == visit_all(<<{}, 0>>, bron_kerbosch_all_cliques(g, n))[1]

(***************************************************************************)
(* The run.                                                                *)
(***************************************************************************)
\* The inputs: up to MaxTris distinct triangles of the pool, in pool order.
\* The scenes the inputs are taken from: triangles of the pool that are
\* given to the engine together.
Scenes == {{1, 2, 3, 4}, {4, 5, 6, 7}, {2, 5, 7}, {1, 4, 8}, {1, 2, 6, 7}, {3, 6, 8}}

\* The inputs: up to MaxTris triangles of one scene, in the order of the pool.
Inputs ==
  UNION {{s \in [1..n -> 1..Len(Pool)] :
            /\ \A i, j \in 1..n : i < j => s[i] < s[j]
            /\ \E sc \in Scenes : \A i \in 1..n : s[i] \in sc}
         : n \in 1..MaxTris}

N == Cardinality(Ids)

\* What is kept of the first run of an engine when a second engine is given
\* a related input: how the input was changed, the triangles of the chosen
\* clique and the solution.
NoRef == [kind |-> "none", clique |-> {}, solution |-> {}]

Init ==
  /\ tris \in {[i \in 0..(Len(s) - 1) |-> Triangle(Pool[s[i + 1]])] : s \in Inputs}
  /\ status = <<>>
  /\ sweep = <<FInt(0), FInt(-1)>>
  /\ queue = [k \in 1..(3 * N) |-> TriEvent((k - 1) \div 3, (k - 1) % 3)]
  /\ intersections = {}
  /\ graph = {}
  /\ solutions = <<>>
  /\ chosen = <<>>
  /\ runs = 0
  /\ ref = NoRef
  /\ pc = "idle"
  /\ cur = <<"NONE", <<FInt(0), FInt(-1)>>, -1, -1>>
  /\ iter = <<>>
  /\ pos = 0
  /\ processed = [t \in Ids |-> <<>>]
  /\ ops = <<>>
  /\ before = <<>>
  /\ handled = <<>>
  /\ NoDiagram /\ NoComponents /\ NoCell /\ NoCompare /\ NoTree

\* queue_top of a queue that hands out its events in any order.
queue_top_any(q) == 1..Len(q)

\* The positions of the queue the priority queue can hand out next.
queue_top(q) == {i \in 1..Len(q) : \A j \in 1..Len(q) : ~PointLess(q[j][2], q[i][2])}

\* update_sweep.
update_sweep(pt) == pt

\* tripoint_op in which the MIDDLE event does not insert the lower edge.
tripoint_op_no_insert(e, first, h, st, ix, q, env) ==
  IF (first /\ h = TOP) \/ (~first /\ h = TOP)
  THEN insert_edge(e, st, ix, q, env)
  ELSE IF ~first /\ h = MIDDLE
  THEN {Outcome(st, ix, q, TRUE, <<>>)}
  ELSE remove_edge(e, st, ix, q, env)

\* The operation handle_tripoint runs first / second at rank h.
tripoint_op(e, first, h, st, ix, q, env) ==
  IF (first /\ h = TOP) \/ (~first /\ h # BOTTOM)
  THEN insert_edge(e, st, ix, q, env)
  ELSE remove_edge(e, st, ix, q, env)

op_name(first, h) ==
  IF (first /\ h = TOP) \/ (~first /\ h # BOTTOM) THEN "insert" ELSE "remove"

\* handle_event, TRIPOINT: the event is taken and the sweep line advanced.
HandleTripoint ==
  /\ pc = "idle"
  /\ \E i \in queue_top(queue) :
       /\ queue[i][1] = "TRIPOINT"
       /\ cur' = queue[i]
       /\ queue' = RemoveAt(queue, i)
       /\ sweep' = update_sweep(queue[i][2])
  /\ pc' = "tp1"
  /\ ops' = <<>>
  /\ UNCHANGED <<ref, tris, status, intersections, graph, solutions, chosen, runs, iter, pos, processed, before, handled, other_vars>>

\* How a vertex handler ends when its edge operation o did not complete.
\* remove_edge did not find its edge (nothing was checked): the assert stops
\* the process.  check_intersections walked a range whose end lies before
\* its begin: the iteration leaves the status, the behaviour is undefined,
\* the process is stopped or goes on in a way that is not described.
stopped(o) == IF o.chk = <<>> THEN {"fault"} ELSE {"fault", "undefined"}

\* handle_tripoint, the first edge operation of the switch.
TripointFirst ==
  /\ pc = "tp1"
  /\ \E o \in tripoint_op(top_edge(cur[3], cur[4]), TRUE, cur[4],
                          status, intersections, queue, Env(current_y, classify)) :
       /\ status' = o.st
       /\ intersections' = o.ix
       /\ queue' = o.q
       /\ pc' \in (IF o.ok THEN {"tp2"} ELSE stopped(o))
       /\ ops' = Append(ops, <<op_name(TRUE, cur[4]), top_edge(cur[3], cur[4]), o.chk>>)
  /\ UNCHANGED <<ref, tris, sweep, graph, solutions, chosen, runs, cur, iter, pos, processed, before, handled, other_vars>>

\* handle_tripoint, the second edge operation of the switch.
TripointSecond ==
  /\ pc = "tp2"
  /\ \E o \in tripoint_op(bottom_edge(cur[3], cur[4]), FALSE, cur[4],
                          status, intersections, queue, Env(current_y, classify)) :
       /\ status' = o.st
       /\ intersections' = o.ix
       /\ queue' = o.q
       /\ pc' \in (IF o.ok THEN {"idle"} ELSE stopped(o))
       /\ ops' = Append(ops, <<op_name(FALSE, cur[4]), bottom_edge(cur[3], cur[4]), o.chk>>)
       /\ processed' = IF o.ok THEN [processed EXCEPT ![cur[3]] = Append(@, cur[4])]
                       ELSE processed
  /\ UNCHANGED <<ref, tris, sweep, graph, solutions, chosen, runs, cur, iter, pos, before, handled, other_vars>>

\* The orders in which the members of an intersection event can be iterated.
iteration_orders(S) ==
  {s \in [1..Cardinality(S) -> S] : \A i, j \in 1..Cardinality(S) : i # j => s[i] # s[j]}

NoEdge == <<-1, -1>>

\* handle_event, INTERSECTION: the event is taken and looked up in the index.
HandleIntersection ==
  /\ pc = "idle"
  /\ \E i \in queue_top(queue) :
       /\ queue[i][1] = "INTERSECTION"
       /\ cur' = queue[i]
       /\ queue' = RemoveAt(queue, i)
       /\ IF queue[i][2] \in Points(intersections)
          THEN /\ pc' = "ix_remove"
               /\ handled' = Append(handled, <<runs, queue[i][2]>>)
               /\ iter' \in iteration_orders(Members(intersections, queue[i][2]))
          ELSE /\ pc' = "fault"
               /\ iter' = <<>>
               /\ handled' = handled
  /\ pos' = 1
  /\ ops' = <<>>
  /\ before' = status
  /\ UNCHANGED <<ref, tris, status, sweep, intersections, graph, solutions, chosen, runs, processed, other_vars>>

\* mark_crossing without either guard: every member is marked with every
\* member, itself included.
mark_crossing_self(it, group, g, K) ==
  g \cup {{it[1], it2[1]} : it2 \in group}

\* mark_crossing without the comparator test: every other member is marked.
mark_crossing_all(it, group, g, K) ==
  g \cup {{it[1], it2[1]} : it2 \in {x \in group : x # it}}

\* mark_crossing that marks the member with every other triangle.
mark_crossing_everyone(it, group, g, K) ==
  g \cup {{it[1], t} : t \in Ids \ {it[1]}}

\* The graph after the inner loop of the removal loop ran for member it.
mark_crossing(it, group, g, K) ==
  g \cup {{it[1], it2[1]} : it2 \in
            {x \in group : x # it /\ (status_compare(it, x, K) \/ status_compare(x, it, K))}}

\* The removal loop leaving after its first iteration.
IxRemoveOne ==
  /\ pc = "ix_remove"
  /\ graph' = mark_crossing(iter[pos], Range(iter), graph, sort_keys(current_y))
  /\ \E i \in find_unique(status, iter[pos], sort_keys(current_y)) :
       IF i = 0
       THEN /\ pc' = "fault"
            /\ UNCHANGED <<status, pos, ops>>
       ELSE /\ status' = RemoveAt(status, i)
            /\ ops' = Append(ops, <<"remove", iter[pos], <<>>>>)
            /\ pos' = 1
            /\ pc' = "ix_sweep"
  /\ UNCHANGED <<ref, tris, sweep, queue, intersections, solutions, chosen, runs, cur, iter, processed, before, handled, other_vars>>

\* status.erase(segit) with segit = end(), which handle_intersection does not
\* test for: the behaviour is undefined.  The process is stopped at once, or
\* erase returns and leaves the tree as it was or short of one node; what the
\* run does from there is not described ("undefined").
erase_end(st) ==
  {<<"fault", st>>, <<"undefined", st>>}
    \cup {<<"undefined", RemoveAt(st, k)>> : k \in 1..Len(st)}

\* handle_intersection, one iteration of the removal loop.
IxRemove ==
  /\ pc = "ix_remove"
  /\ graph' = mark_crossing(iter[pos], Range(iter), graph, sort_keys(current_y))
  /\ \E i \in find_unique(status, iter[pos], sort_keys(current_y)) :
       IF i = 0
       THEN /\ \E out \in erase_end(status) :
                 /\ pc' = out[1]
                 /\ status' = out[2]
            /\ UNCHANGED <<pos, ops>>
       ELSE /\ status' = RemoveAt(status, i)
            /\ ops' = Append(ops, <<"remove", iter[pos], <<>>>>)
            /\ pos' = IF pos = Len(iter) THEN 1 ELSE pos + 1
            /\ pc' = IF pos = Len(iter) THEN "ix_sweep" ELSE "ix_remove"
  /\ UNCHANGED <<ref, tris, sweep, queue, intersections, solutions, chosen, runs, cur, iter, processed, before, handled, other_vars>>

\* handle_intersection, the sweep line moves to the intersection point.
IxUpdateSweep ==
  /\ pc = "ix_sweep"
  /\ sweep' = update_sweep(cur[2])
  /\ ops' = Append(ops, <<"sweep", NoEdge, <<>>>>)
  /\ pc' = "ix_insert"
  /\ UNCHANGED <<ref, tris, status, queue, intersections, graph, solutions, chosen, runs, cur, iter, pos, processed, before, handled, other_vars>>

\* The re-insertion loop that does not insert its last member.
IxInsertSkip ==
  /\ pc = "ix_insert"
  /\ \E j \in upper_bound(status, iter[pos], sort_keys(current_y)) :
       status' = IF pos = Len(iter) THEN status ELSE InsertAt(status, j, iter[pos])
  /\ ops' = Append(ops, <<"insert", iter[pos], <<>>>>)
  /\ pos' = IF pos = Len(iter) THEN 1 ELSE pos + 1
  /\ pc' = IF pos = Len(iter) THEN "ix_check" ELSE "ix_insert"
  /\ UNCHANGED <<ref, tris, sweep, queue, intersections, graph, solutions, chosen, runs, cur, iter, processed, before, handled, other_vars>>

\* handle_intersection, one iteration of the re-insertion loop.
IxInsert ==
  /\ pc = "ix_insert"
  /\ \E j \in upper_bound(status, iter[pos], sort_keys(current_y)) :
       status' = InsertAt(status, j, iter[pos])
  /\ ops' = Append(ops, <<"insert", iter[pos], <<>>>>)
  /\ pos' = IF pos = Len(iter) THEN 1 ELSE pos + 1
  /\ pc' = IF pos = Len(iter) THEN "ix_check" ELSE "ix_insert"
  /\ UNCHANGED <<ref, tris, sweep, queue, intersections, graph, solutions, chosen, runs, cur, iter, processed, before, handled, other_vars>>

\* handle_intersection, one iteration of the final checking loop.
IxCheck ==
  /\ pc = "ix_check"
  /\ \E r \in check_intersections(iter[pos], status, intersections, queue,
                                   Env(current_y, classify)) :
       /\ intersections' = r[1]
       /\ queue' = r[2]
       /\ ops' = Append(ops, <<"check", iter[pos], <<iter[pos]>>>>)
       /\ pc' \in (IF ~r[3] THEN {"fault", "undefined"}
                   ELSE IF pos = Len(iter) THEN {"idle"} ELSE {"ix_check"})
       /\ pos' = IF r[3] /\ pos # Len(iter) THEN pos + 1 ELSE pos
  /\ UNCHANGED <<ref, tris, status, sweep, graph, solutions, chosen, runs, cur, iter, processed, before, handled, other_vars>>

\* The sample points regions are made of: the integer points of the box
\* that holds every triangle of the pool.
Grid == (-7..6) \X (0..6)

\* Twice the signed area of the triangle a, b, p.
Side(a, b, p) == Cross(b[1] - a[1], b[2] - a[2], p[1] - a[1], p[2] - a[2])

\* The sample points of the closed triangle t.
Cell(t) ==
  {p \in Grid :
     LET d1 == Side(t[1], t[2], p)
         d2 == Side(t[2], t[3], p)
         d3 == Side(t[3], t[1], p)
     IN  ~((d1 < 0 \/ d2 < 0 \/ d3 < 0) /\ (d1 > 0 \/ d2 > 0 \/ d3 > 0))}

\* The members of a set of ids in increasing order (std::set<int>).
RECURSIVE in_order(_)
in_order(S) ==
  IF S = {} THEN <<>>
  ELSE LET m == CHOOSE x \in S : \A y \in S : x <= y
       IN  <<m>> \o in_order(S \ {m})

\* fold_intersection that stops at the running result.
fold_intersection_none(running, rest) == running

\* intersection(begin, end, s): the polygons are folded pairwise, the
\* running result with the next one; no polygon gives the empty result.
RECURSIVE fold_intersection(_, _)
fold_intersection(running, rest) ==
  IF rest = <<>> THEN running
  ELSE fold_intersection(running \cap Head(rest), Tail(rest))

intersection(polys) ==
  IF polys = <<>> THEN {} ELSE fold_intersection(Head(polys), Tail(polys))

\* The triangles finalize hands to intersection for clique c.
max_clique_triangles(c) == [k \in 1..Cardinality(c) |-> Cell(tris[in_order(c)[k]])]

\* finalize that does not wait for the queue to drain.
FinalizeEarly ==
  /\ pc = "idle"
  /\ LET c == max_clique(graph, N)
     IN  /\ chosen' = Append(chosen, [clique |-> c, graph |-> graph])
         /\ solutions' = Append(solutions, intersection(max_clique_triangles(c)))
  /\ runs' = runs + 1
  /\ pc' = "done"
  /\ UNCHANGED <<ref, tris, status, sweep, queue, intersections, graph, cur, iter, pos, processed, ops, before, handled, other_vars>>

\* finalize, once the queue has drained.
Finalize ==
  /\ pc = "idle"
  /\ queue = <<>>
  /\ LET c == max_clique(graph, N)
     IN  /\ chosen' = Append(chosen, [clique |-> c, graph |-> graph])
         /\ solutions' = Append(solutions, intersection(max_clique_triangles(c)))
  /\ runs' = runs + 1
  /\ pc' = "done"
  /\ UNCHANGED <<ref, tris, status, sweep, queue, intersections, graph, cur, iter, pos, processed, ops, before, handled, other_vars>>

\* Another run of the same engine instance: the driver queues the vertex
\* events again and calls initialize, which replaces the graph.
Rerun ==
  /\ pc = "done"
  /\ runs < MaxRuns
  /\ graph' = {}
  /\ queue' = [k \in 1..(3 * N) |-> TriEvent((k - 1) \div 3, (k - 1) % 3)]
  /\ sweep' = <<FInt(0), FInt(-1)>>
  /\ cur' = <<"NONE", <<FInt(0), FInt(-1)>>, -1, -1>>
  /\ processed' = [t \in Ids |-> <<>>]
  /\ ops' = <<>>
  /\ iter' = <<>>
  /\ pos' = 0
  /\ before' = <<>>
  /\ pc' = "idle"
  /\ UNCHANGED <<ref, tris, status, intersections, solutions, chosen, runs, handled, other_vars>>

\* The input tr in reverse order and rotated by one place.
reversed(tr) == [i \in DOMAIN tr |-> tr[Cardinality(DOMAIN tr) - 1 - i]]
rotated(tr) == [i \in DOMAIN tr |-> tr[(i + 1) % Cardinality(DOMAIN tr)]]

\* Triangles t and u lie in boxes that do not meet.
apart(t, u) ==
  \/ \A i, j \in 1..3 : t[i][1] < u[j][1]
  \/ \A i, j \in 1..3 : u[i][1] < t[j][1]
  \/ \A i, j \in 1..3 : t[i][2] < u[j][2]
  \/ \A i, j \in 1..3 : u[i][2] < t[j][2]

\* The input tr with one more triangle of the pool that is apart from all
\* of tr, added behind the others.
extended(tr) ==
  {[i \in 0..Cardinality(DOMAIN tr) |->
      IF i \in DOMAIN tr THEN tr[i] ELSE Triangle(Pool[k])]
   : k \in {j \in 1..Len(Pool) : \A i \in DOMAIN tr : apart(Triangle(Pool[j]), tr[i])}}

\* A second engine is constructed on a related input once the first engine
\* completed its first run: the same triangles in another order, or the
\* same triangles and one more that is apart from them.
NewEngine ==
  /\ pc = "done"
  /\ runs = 1
  /\ ref = NoRef
  /\ \E kind \in {"permuted", "extended"} :
       /\ tris' \in (IF kind = "permuted" THEN {reversed(tris), rotated(tris)}
                      ELSE IF N < MaxTris THEN extended(tris) ELSE {}) \ {tris}
       /\ ref' = [kind |-> kind,
                  clique |-> {tris[t] : t \in chosen[1].clique},
                  solution |-> solutions[1]]
  /\ status' = <<>>
  /\ sweep' = <<FInt(0), FInt(-1)>>
  /\ queue' = [k \in 1..(3 * Cardinality(DOMAIN tris')) |->
                 <<"TRIPOINT", PointOf(tris'[(k - 1) \div 3][((k - 1) % 3) + 1]),
                   (k - 1) \div 3, (k - 1) % 3>>]
  /\ intersections' = {}
  /\ graph' = {}
  /\ solutions' = <<>>
  /\ pc' = "idle"
  /\ cur' = <<"NONE", <<FInt(0), FInt(-1)>>, -1, -1>>
  /\ iter' = <<>>
  /\ pos' = 0
  /\ processed' = [t \in DOMAIN tris' |-> <<>>]
  /\ ops' = <<>>
  /\ before' = <<>>
  /\ chosen' = <<>>
  /\ runs' = 0
  /\ handled' = <<>>
  /\ UNCHANGED other_vars

Next ==
  \/ HandleTripoint
  \/ TripointFirst
  \/ TripointSecond
  \/ HandleIntersection
  \/ IxRemove
  \/ IxUpdateSweep
  \/ IxInsert
  \/ IxCheck
  \/ Finalize
  \/ Rerun
  \/ NewEngine

Spec == Init /\ [][Next]_vars

\* The driver keeps taking steps as long as one is possible.
LiveSpec == Spec /\ WF_vars(Next)

(***************************************************************************)
(* Properties.                                                             *)
(***************************************************************************)
TriEdges(t) == {<<t, 0>>, <<t, 1>>, <<t, 2>>}

\* The brute-force check of the 3x3 edge pairs of triangles i and j.
ProperCrossing(i, j) ==
  \E a \in TriEdges(i), b \in TriEdges(j) : intersect(a, b)[1] = "1"

\* C1: soundness of the Overlap Graph.  Whenever triangles i and j are
\* adjacent in the graph, one of the 3x3 pairs of their edges is a proper
\* crossing; triangles that only touch or overlap collinearly are never
\* adjacent, also when a third triangle crosses them at a common point.
C1_Soundness ==
  \A e \in graph : \A i, j \in Ids : e = {i, j} => ProperCrossing(i, j)

\* C1 witness: a completed run in which one intersection event held two
\* collinear edges of different triangles next to the edge crossing both,
\* the graph got edges, and the two collinear owners stayed non-adjacent.
C1_Witness ==
  /\ pc = "done"
  /\ graph # {}
  /\ \E x \in intersections : \E a, b \in x.segs :
       /\ a[1] # b[1]
       /\ intersect(a, b)[1] = "e"
       /\ ~Adjacent(graph, a[1], b[1])
       /\ \E c \in x.segs : Adjacent(graph, a[1], c[1]) /\ Adjacent(graph, b[1], c[1])

\* C2: completeness of the Overlap Graph.  Once the event queue has drained,
\* every two distinct triangles for which the brute-force check of the 3x3
\* edge pairs finds a proper crossing are adjacent in the graph.
C2_Completeness ==
  pc = "done" =>
    \A i, j \in Ids : (i # j /\ ProperCrossing(i, j)) => Adjacent(graph, i, j)

IsClique(g, S) == \A i, j \in S : i # j => Adjacent(g, i, j)

\* The clique finalize chose in the run that just completed.
Chosen == chosen[Len(chosen)].clique

\* C3: the clique chosen by finalize is a clique of the Overlap Graph, and
\* no clique of the graph is strictly larger.
C3_MaximumClique ==
  pc = "done" =>
    /\ IsClique(graph, Chosen)
    /\ \A S \in SUBSET Ids : IsClique(graph, S) => Cardinality(S) <= Cardinality(Chosen)

\* The entries a triangle contributes, from the vertex events processed so far.
Active(t) ==
  IF processed[t] = <<TOP>> THEN {<<t, 0>>, <<t, 1>>}
  ELSE IF processed[t] = <<TOP, MIDDLE>> THEN {<<t, 1>>, <<t, 2>>}
  ELSE {}

\* The vertical span of edge e reaches from its first to its second end point.
Straddles(e, Y) ==
  /\ ~FLess(Y, FInt(First(e)[2]))
  /\ ~FLess(FInt(Second(e)[2]), Y)

StrictlyStraddles(e, Y) ==
  /\ FLess(FInt(First(e)[2]), Y)
  /\ FLess(Y, FInt(Second(e)[2]))

\* C4: membership of the Sweep Status.  After every fully processed event
\* each triangle whose TOP event has been processed and whose BOTTOM event
\* has not contributes exactly two entries: the spanning edge and the short
\* edge that covers the current height; every other triangle contributes
\* none.  Every stored edge straddles the sweep height and every edge whose
\* span strictly contains the sweep height is stored.
C4_Membership ==
  pc \in {"idle", "done"} =>
    /\ Range(status) = UNION {Active(t) : t \in Ids}
    /\ Len(status) = Cardinality(Range(status))
    /\ \A e \in Range(status) : Straddles(e, current_y)
    /\ \A e \in Edges : StrictlyStraddles(e, current_y) => e \in Range(status)

\* C4 witness: an intersection event has just been processed while one
\* triangle is between TOP and MIDDLE, one between MIDDLE and BOTTOM.
C4_Witness ==
  /\ pc = "idle"
  /\ cur[1] = "INTERSECTION"
  /\ \E t, u \in Ids : processed[t] = <<TOP>> /\ processed[u] = <<TOP, MIDDLE>>
  /\ Len(status) = 4

\* The stored order of st is one the comparator with keys K does not contradict.
Sorted(st, K) ==
  \A i, j \in 1..Len(st) : i < j => ~status_compare(st[j], st[i], K)

\* C5: order of the Sweep Status.  After every fully processed event, and
\* right after the sweep position has been advanced to the next vertex
\* event, no two stored entries are in an order that the comparator at the
\* current sweep position contradicts.
C5_Order ==
  pc \in {"idle", "tp1", "done"} => Sorted(status, sort_keys(current_y))

\* The step in which an engine that completed a run starts its next run.
NewRun == pc = "done" /\ pc' = "idle"

\* The edge operations the life cycle prescribes for the vertex of rank h of
\* triangle t: <<first, second>>, each <<operation, edge>>.
Prescribed(t, h) ==
  IF h = TOP THEN <<<<"insert", <<t, 0>>>>, <<"insert", <<t, 1>>>>>>
  ELSE IF h = MIDDLE THEN <<<<"remove", <<t, 0>>>>, <<"insert", <<t, 2>>>>>>
  ELSE <<<<"remove", <<t, 1>>>>, <<"remove", <<t, 2>>>>>>

\* The entries next to the place edge e was removed from: left, then right.
NeighboursOf(e, st) ==
  LET i == CHOOSE k \in 1..Len(st) : st[k] = e
  IN  (IF i > 1 THEN <<st[i - 1]>> ELSE <<>>) \o (IF i < Len(st) THEN <<st[i + 1]>> ELSE <<>>)

\* One edge operation of a vertex event did what op prescribes, and its
\* adjacency check ran: on the inserted edge, or on the entries next to the
\* removed one.
Performed(op) ==
  LET o == ops'[Len(ops')]
  IN  /\ o[1] = op[1]
      /\ o[2] = op[2]
      /\ IF op[1] = "insert"
         THEN /\ op[2] \notin Range(status)
              /\ Len(status') = Len(status) + 1
              /\ Range(status') = Range(status) \cup {op[2]}
              /\ o[3] = <<op[2]>>
         ELSE /\ op[2] \in Range(status)
              /\ Len(status') = Len(status) - 1
              /\ Range(status') = Range(status) \ {op[2]}
              /\ o[3] = NeighboursOf(op[2], status)

C6_Step ==
  /\ (pc = "idle" /\ pc' = "tp1") => cur'[4] = Len(processed[cur'[3]])
  /\ (pc = "tp1" /\ pc' = "tp2") => Performed(Prescribed(cur[3], cur[4])[1])
  /\ (pc = "tp2" /\ pc' = "idle") =>
       /\ Performed(Prescribed(cur[3], cur[4])[2])
       /\ processed'[cur[3]] = Append(processed[cur[3]], cur[4])
  /\ NewRun => \A t \in DOMAIN processed' : processed'[t] = <<>>
  /\ (~(pc = "tp2" /\ pc' = "idle") /\ ~NewRun) => processed' = processed
  /\ pc' = "done" => \A t \in Ids : processed'[t] = <<TOP, MIDDLE, BOTTOM>>

Protocol(it) ==
  [k \in 1..Len(it) |-> <<"remove", it[k], <<>>>>]
    \o <<<<"sweep", NoEdge, <<>>>>>>
    \o [k \in 1..Len(it) |-> <<"insert", it[k], <<>>>>]
    \o [k \in 1..Len(it) |-> <<"check", it[k], <<it[k]>>>>]

C7_Step ==
  /\ (pc = "ix_remove" /\ pc' \in {"ix_remove", "ix_sweep"}) =>
       /\ ~event_point_ycompare(sweep, cur[2])
       /\ sweep' = sweep
       /\ iter[pos] \in Range(status)
       /\ Range(status') = Range(status) \ {iter[pos]}
  /\ (sweep' # sweep /\ cur'[1] = "INTERSECTION") =>
       /\ pc = "ix_sweep"
       /\ Range(iter) \cap Range(status) = {}
       /\ sweep' = cur[2]
  /\ pc = "ix_insert" =>
       /\ sweep = cur[2]
       /\ sweep' = sweep
       /\ iter[pos] \notin Range(status)
       /\ Range(status') = Range(status) \cup {iter[pos]}
  /\ pc = "ix_check" =>
       /\ Range(iter) \subseteq Range(status)
       /\ status' = status
       /\ sweep' = sweep
  /\ (pc = "ix_check" /\ pc' = "idle") => ops' = Protocol(iter)

\* C7: two-phase reorder protocol.  While an intersection event is resolved,
\* every contributing edge is removed while the sweep position still has its
\* value from before the intersection, then the sweep position moves to the
\* intersection point, then the same edges are inserted again, and the
\* adjacency checks run only once all of them are back.  The sweep position
\* never changes while a contributing edge of the event is stored.
C7_TwoPhase == [][C7_Step]_vars

\* C7 witness: an event of three contributing edges has been resolved.
C7_Witness ==
  /\ pc = "idle"
  /\ cur[1] = "INTERSECTION"
  /\ Len(iter) >= 3
  /\ ops = Protocol(iter)

\* The positions of st that hold a member of S.
PositionsOf(st, S) == {i \in 1..Len(st) : st[i] \in S}

\* st without the members of S.
Without(st, S) == SelectSeq(st, LAMBDA e : e \notin S)

Contiguous(P) == \A i, j \in P : \A k \in i..j : k \in P

\* C8: resolution reorders only the crossing group.  After an intersection
\* event the edges outside the group are in the same order as before, each
\* of them is on the same side of every group member as before, and the
\* group fills the same contiguous range of positions as before.
C8_Frame ==
  (pc = "idle" /\ cur[1] = "INTERSECTION") =>
    /\ Without(status, Range(iter)) = Without(before, Range(iter))
    /\ PositionsOf(status, Range(iter)) = PositionsOf(before, Range(iter))
    /\ Contiguous(PositionsOf(before, Range(iter)))

\* The members the index gained at point pt in a step.
Gained(pt) == Members(intersections', pt) \ Members(intersections, pt)

\* The events the queue gained in a step.
Queued == Range(queue') \ Range(queue)

C9_Step ==
  /\ \A pt \in Points(intersections') : \A a \in Gained(pt) :
       /\ event_point_ycompare(pt, sweep')
       /\ FLess(current_y', pt[2])
       /\ a \in Range(status')
       /\ \E b \in Members(intersections', pt) \cap Range(status') :
            b # a /\ intersect(a, b) = <<"1", pt>>
  /\ \A ev \in (IF NewRun THEN {} ELSE Queued) :
       /\ ev[1] = "INTERSECTION"
       /\ ev[2] \in Points(intersections') \ Points(intersections)
  /\ \A x \in (IF tris' = tris THEN intersections ELSE {}) : \E y \in intersections' :
       y.point = x.point /\ x.segs \subseteq y.segs

\* C9: an adjacency check adds an index entry, adds members to an entry or
\* queues an event only for a pair of stored edges that is classified as a
\* proper crossing whose point lies strictly below (strictly after, in sweep
\* order) the current sweep position; nothing else changes the index or
\* adds to the event queue (but the start of a run, which queues the
\* vertex events).
C9_OnlyProperBelow == [][C9_Step]_vars

\* C9 witness: the index holds an entry although a pair of stored edges that
\* only touches or overlaps was checked, and a crossing above the sweep
\* position was checked again after its event.
C9_Witness ==
  /\ pc = "idle"
  /\ cur[1] = "INTERSECTION"
  /\ intersections # {}
  /\ \E i \in 1..(Len(status) - 1) : intersect(status[i], status[i + 1])[1] \in {"e", "v"}
  /\ \E i \in 1..(Len(status) - 1) : intersect(status[i], status[i + 1]) = <<"1", sweep>>

\* How many times event ev is on queue q.
Count(q, ev) == Cardinality({i \in 1..Len(q) : q[i] = ev})

C10_Step ==
  /\ \A x, y \in intersections' : x.point = y.point => x = y
  /\ tris' = tris => Points(intersections) \subseteq Points(intersections')
  /\ \A pt \in Points(intersections') :
       IF pt \in Points(intersections)
       THEN /\ Count(queue', IxEvent(pt)) <= Count(queue, IxEvent(pt))
            /\ Gained(pt) # {} => Count(queue', IxEvent(pt)) = Count(queue, IxEvent(pt))
       ELSE Count(queue', IxEvent(pt)) = 1
  /\ \A ev \in Range(queue') : ev[1] = "INTERSECTION" => ev[2] \in Points(intersections')

\* C10: deduplication of intersection points.  The index holds at most one
\* entry per point; a point is put on the event queue when its entry is
\* created and never again, since entries are never dropped and a discovery
\* at a point that has an entry only adds members to that entry and queues
\* nothing for that point.
C10_Dedup == [][C10_Step]_vars

\* C10 witness: a point was discovered more than once (its entry has three
\* or more members) and the run completed.
C10_Witness ==
  /\ pc = "done"
  /\ \E x \in intersections : Cardinality(x.segs) >= 3

\* Point pt lies on edge e (end points included).
OnEdge(pt, e) ==
  LET a == First(e)
      b == Second(e)
      \* pt = <<<<xn, xd>>, <<yn, yd>>>>; the cross product is scaled by xd * yd
      cr == (b[1] - a[1]) * (pt[2][1] * pt[1][2] - a[2] * pt[2][2] * pt[1][2])
              - (b[2] - a[2]) * (pt[1][1] * pt[2][2] - a[1] * pt[1][2] * pt[2][2])
  IN  /\ cr = 0
      /\ ~FLess(pt[2], FInt(a[2]))
      /\ ~FLess(FInt(b[2]), pt[2])

\* C11: every entry of the Intersection Index has contributing edges of at
\* least two different triangles, and each contributing edge passes through
\* the point of the entry.
C11_OnTwoBoundaries ==
  \A x \in intersections :
    /\ \E a, b \in x.segs : a[1] # b[1]
    /\ \A a \in x.segs : OnEdge(x.point, a)

\* C11 witness: an entry with edges of three different triangles.
C11_Witness ==
  \E x \in intersections : \E a, b, c \in x.segs :
    a[1] # b[1] /\ a[1] # c[1] /\ b[1] # c[1]

C12_Step ==
  (graph' # graph /\ ~NewRun) =>
    /\ pc = "ix_remove"
    /\ cur[1] = "INTERSECTION"
    /\ graph \subseteq graph'
    /\ \A e \in graph' \ graph :
         \E a, b \in Members(intersections, cur[2]) : a[1] # b[1] /\ e = {a[1], b[1]}

\* C12: resolution of intersection events is the only path that adds edges
\* to the Overlap Graph.  Vertex events, the discovery of crossings and
\* finalize leave the graph as it is; a step of an intersection event adds
\* edges only between owners of edges of that event's group.  (The start of
\* another run replaces the graph by an empty one.)
C12_SolePath == [][C12_Step]_vars

\* C12 witness: a run completed with a graph edge and an index entry whose
\* event was resolved without adding an edge between two of its owners.
C12_Witness ==
  /\ pc = "done"
  /\ graph # {}
  /\ \E x \in intersections : \E a, b \in x.segs :
       a[1] # b[1] /\ ~Adjacent(graph, a[1], b[1])

C13_Step ==
  /\ (cur' # cur /\ ~NewRun) => ~PointLess(cur'[2], cur[2])
  /\ (sweep' # sweep /\ ~NewRun) => PointLess(sweep, sweep')
  /\ \A ev \in Range(queue') : ~PointLess(ev[2], sweep')

\* C13: events are processed in sweep order.  Within a run the point of every event taken
\* from the queue is not before the point of the event taken before it (y
\* ascending, ties x ascending), the sweep position never moves backwards,
\* and no event on the queue lies before the current sweep position.
C13_SweepOrder == [][C13_Step]_vars

\* C13 witness: an intersection event was processed at the very point of a
\* vertex whose event was processed before it.
C13_Witness ==
  /\ pc = "idle"
  /\ cur[1] = "INTERSECTION"
  /\ sweep = cur[2]
  /\ \E t \in Ids : \E h \in {TOP, MIDDLE, BOTTOM} :
       PointOf(tris[t][h + 1]) = cur[2] /\ h \in Range(processed[t])

\* C14: termination.  Every run that was started drains the event queue and
\* completes, and the queue never holds more intersection events than the
\* index has entries (one event per distinct crossing point).
C14_Termination ==
  /\ (pc = "idle") ~> (pc = "done")
  /\ [](Cardinality({i \in 1..Len(queue) : queue[i][1] = "INTERSECTION"})
          <= Cardinality(intersections))

\* The solution the run that just completed appended.
Solution == solutions[Len(solutions)]

\* The sample points every triangle of clique c holds.
Common(c) == {p \in Grid : \A t \in c : p \in Cell(tris[t])}

C16_SameAgain ==
  (pc = "done" /\ runs = 2) =>
    /\ chosen[2].graph = chosen[1].graph
    /\ chosen[2].clique = chosen[1].clique
    /\ solutions[2] = solutions[1]

C17_Step ==
  /\ (solutions' # solutions /\ tris' = tris) =>
       /\ pc = "idle" /\ pc' = "done"
       /\ queue = <<>>
       /\ graph' = graph
       /\ intersections' = intersections
  /\ tris' = tris =>
       /\ Len(solutions') = (IF pc # "done" /\ pc' = "done" THEN Len(solutions) + 1
                              ELSE Len(solutions))
       /\ SubSeq(solutions', 1, Len(solutions)) = solutions
  /\ pc' = "done" => Len(solutions') = runs'

\* C17: each completed run appends exactly one solution, after the event
\* queue has drained; after k completed runs the list holds k solutions, the
\* earlier ones unchanged; finalize leaves the Overlap Graph and the
\* Intersection Index as they are.
C17_OnePerRun == [][C17_Step]_vars

\* C17 witness: two runs completed and left two different solutions.
C17_Witness ==
  /\ pc = "done"
  /\ runs = 2
  /\ Len(solutions) = 2
  /\ solutions[1] # solutions[2]

\* C18: permutation invariance.  The engine run on the same triangles in
\* another order (ids by position) yields the same solution region.
C18_PermutationInvariance ==
  (pc = "done" /\ runs = 1 /\ ref.kind = "permuted") => Solution = ref.solution

\* C19: a triangle added to an input that is disjoint from all the others
\* leaves the chosen clique and the solution region as they were, and is an
\* isolated vertex of the Overlap Graph.
C19_DisjointAdded ==
  (pc = "done" /\ runs = 1 /\ ref.kind = "extended") =>
    /\ {tris[t] : t \in Chosen} = ref.clique
    /\ Solution = ref.solution
    /\ \A e \in graph : (N - 1) \notin e

\* The step takes edge e out of the status.
Removes(e) == \E i \in 1..Len(status) : status[i] = e /\ status' = RemoveAt(status, i)

\* C20: invariant violations abort the run.  When a contributing edge is
\* absent from the status during intersection resolution, the run stops in
\* the fault state with the status and the solution list as they were, and a
\* run in the fault state modifies nothing further.
C20_Step ==
  /\ (pc = "ix_remove" /\ ~Removes(iter[pos])) =>
       (pc' = "fault" /\ status' = status /\ solutions' = solutions)
  /\ (pc = "fault") =>
       (status' = status /\ graph' = graph /\ solutions' = solutions)

C20_FaultAborts == [][C20_Step]_vars

\* The cliques the enumeration reported in the last finalize, in order.
Reported == bron_kerbosch_all_cliques(chosen[Len(chosen)].graph, N)

\* The positions of the largest reported cliques.
Largest(cs) == {i \in 1..Len(cs) : \A j \in 1..Len(cs) : Len(cs[j]) <= Len(cs[i])}

TestedLeft(center, st, K) ==
  UNION {IF lb = End(st) \/ lb = 1 THEN {{}}
         ELSE {Range(left_range(st, lb, left_last)) :
                 left_last \in {x \in lower_bound(st, st[lb - 1], K) : x = End(st) \/ x <= lb}}
         : lb \in lower_bound(st, center, K)}

TestedRight(center, st, K) ==
  UNION {IF ub = End(st) THEN {{}}
         ELSE {Range(right_range(st, ub, right_end)) :
                 right_end \in {x \in upper_bound(st, st[ub], K) : x >= ub}}
         : ub \in upper_bound(st, center, K)}

\* Edges a and b currently compare equal.
Tied(a, b, K) == ~status_compare(a, b, K) /\ ~status_compare(b, a, K)

\* The stored run of entries tied with st[p] around position p: <<first, last>>.
RunAt(st, p, K) ==
  <<CHOOSE a \in 1..p : /\ \A i \in a..p : Tied(st[i], st[p], K)
                        /\ (a = 1 \/ ~Tied(st[a - 1], st[p], K)),
    CHOOSE b \in p..Len(st) : /\ \A i \in p..b : Tied(st[i], st[p], K)
                              /\ (b = Len(st) \/ ~Tied(st[b + 1], st[p], K))>>

\* The nearest run of tied entries left (right) of the run of position p.
LeftRun(st, p, K) ==
  LET a == RunAt(st, p, K)[1]
  IN  IF a = 1 THEN {} ELSE {st[i] : i \in RunAt(st, a - 1, K)[1]..(a - 1)}

RightRun(st, p, K) ==
  LET b == RunAt(st, p, K)[2]
  IN  IF b = Len(st) THEN {} ELSE {st[i] : i \in (b + 1)..RunAt(st, b + 1, K)[2]}

\* C22: tied-run skipping in the adjacency check.  check_intersections(center)
\* classifies center against the members of the nearest run of tied edges left
\* of center's own run and of the nearest such run right of it, against all of
\* them and against no other edge; never against center itself or an edge tied
\* with center, and against nothing on a side without edges.  Stated for the
\* check of an edge a TOP event has just inserted and for the checks that end
\* the resolution of an intersection event.
C22_TiedRuns ==
  LET K == sort_keys(current_y)
      e == top_edge(cur[3], cur[4])
      places == IF pc = "ix_check"
               THEN {<<status, CHOOSE i \in 1..Len(status) : status[i] = iter[pos]>>}
               ELSE IF pc = "tp1" /\ cur[4] = TOP
               THEN {<<InsertAt(status, j, e), j>> : j \in upper_bound(status, e, K)}
               ELSE {}
  IN  \A site \in places :
        LET st == site[1]
            p == site[2]
        IN  /\ \A L \in TestedLeft(st[p], st, K) : L = LeftRun(st, p, K)
            /\ \A R \in TestedRight(st[p], st, K) : R = RightRun(st, p, K)

\* The edge operation the handler is about to perform at a vertex event.
Pending == Prescribed(cur[3], cur[4])[IF pc = "tp1" THEN 1 ELSE 2]

C23_Step ==
  /\ (pc \in {"tp1", "tp2"} /\ Pending[1] = "remove") =>
       (Pending[2] \in Range(status) /\ Removes(Pending[2]))
  /\ (pc = "ix_remove") =>
       (iter[pos] \in Range(status) /\ Removes(iter[pos]))
  /\ (pc = "idle" /\ cur'[1] = "INTERSECTION" /\ queue' # queue /\ tris' = tris) =>
       cur'[2] \in Points(intersections)

\* C23: every removal finds its edge.  Whenever remove_edge is called at a
\* MIDDLE or BOTTOM event, and whenever a contributing edge is removed while
\* an intersection event is resolved, the edge is in the status and the
\* lookup finds it; every intersection event taken from the queue has its
\* entry in the index.
C23_RemovalFinds == [][C23_Step]_vars

C24_Step ==
  (pc \in {"tp1", "tp2"} /\ Pending[1] = "remove" /\ status' # status) =>
    /\ Removes(Pending[2])
    /\ Pending[2] \notin Range(status')
    /\ Len(status') = Len(status) - 1

\* C24: remove-by-identity.  remove_edge(e) takes exactly one entry out of the
\* status, the entry of e itself, also when other edges tie with e at the
\* current sort key; all other entries stay, in the same relative order.
C24_ByIdentity == [][C24_Step]_vars

\* C24 witness: a vertex event has removed its first edge while an edge of
\* another triangle, tied with the removed edge, stays in the status.
C24_Witness ==
  /\ pc = "tp2"
  /\ Len(ops) = 1
  /\ ops[1][1] = "remove"
  /\ ops[1][2] \notin Range(status)
  /\ \E x \in Range(status) :
       x[1] # ops[1][2][1] /\ Tied(x, ops[1][2], sort_keys(current_y))

C25_Step ==
  (pc \in {"tp1", "tp2"} /\ Pending[1] = "remove" /\ Removes(Pending[2])
     /\ pc' \in {"tp2", "idle"}) =>
    LET nb == NeighboursOf(Pending[2], status)
    IN  /\ ops'[Len(ops')][3] = nb
        /\ Len(nb) = 2 =>
             LET r == classify[<<nb[1], nb[2]>>]
             IN  (r[1] = "1" /\ FLess(current_y, r[2][2])) =>
                   /\ r[2] \in Points(intersections')
                   /\ {nb[1], nb[2]} \subseteq Members(intersections', r[2])

SameEntries(st, su) ==
  /\ Len(st) = Len(su)
  /\ \A e \in Range(st) \cup Range(su) :
       Cardinality({i \in 1..Len(st) : st[i] = e}) = Cardinality({i \in 1..Len(su) : su[i] = e})

C26_Step ==
  /\ (pc = "ix_remove" /\ pc' \in {"ix_remove", "ix_sweep"}) => Len(status') = Len(status) - 1
  /\ (pc = "ix_sweep") => status' = status
  /\ (pc = "ix_insert") => Len(status') = Len(status) + 1
  /\ (pc = "ix_check") => status' = status
  /\ (pc = "ix_check" /\ pc' = "idle") => SameEntries(status', before)

\* C26: intersection resolution preserves the membership of the status.
\* After an intersection event has been processed the status holds the same
\* edges, as many, as before the event; every removal of a contributing edge
\* makes it one entry shorter, every re-insertion one entry longer.
C26_SameMembers == [][C26_Step]_vars

\* C26 witness: an intersection event has been processed and has put the
\* same edges into another order.
C26_Witness ==
  /\ pc = "idle"
  /\ cur[1] = "INTERSECTION"
  /\ SameEntries(status, before)
  /\ status # before
  /\ Len(status) > Len(iter)

\* Every pair of members of an entry can be recorded again, in either order,
\* without changing the index.
Idempotent(ix) ==
  \A x \in ix : \A a, b \in x.segs : record_index(ix, x.point, a, b) = ix

C27_Step ==
  /\ \A x, y \in intersections' : x.point = y.point => x = y
  /\ tris' = tris =>
       \A pt \in Points(intersections) :
         /\ Members(intersections, pt) \subseteq Members(intersections', pt)
         /\ (runs = 0 /\ Gained(pt) # {}) => IxEvent(pt) \in Range(queue')
  /\ \A pt \in Points(intersections') :
       \A a \in Gained(pt) :
         \E b \in Members(intersections', pt) :
           a # b /\ classify[<<a, b>>][1] = "1" /\ classify[<<a, b>>][2] = pt
  /\ (pc = "idle" /\ pc' = "ix_remove") =>
       /\ Range(iter') = Members(intersections, cur'[2])
       /\ Len(iter') = Cardinality(Members(intersections, cur'[2]))
  /\ Idempotent(intersections')

\* C27: coalesced intersection events.  There is one entry per point; a
\* discovery at a point adds both edges of the pair to that entry, and in
\* the first run of an engine only while the event of the point is still
\* queued; an entry never loses a member, so the event that is processed
\* at p iterates over both edges of every pair discovered at p, each once;
\* recording a pair whose edges are members already leaves the index as it
\* was.
C27_Coalesced == [][C27_Step]_vars

\* C27 witness: the event being processed has three or more members, that
\* is, its entry took the pairs of more than one discovery.
C27_Witness == pc = "ix_remove" /\ Len(iter) >= 3 /\ Range(iter) = Members(intersections, cur[2])

\* C28: non-empty input gives a non-empty clique.  For an input of at least
\* one triangle the clique chosen by finalize holds at least one triangle,
\* and when the Overlap Graph has no edges the appended solution is the
\* region of a triangle of the input.
C28_NonEmptyClique ==
  (pc = "done" /\ N >= 1) =>
    /\ Chosen # {}
    /\ graph = {} => \E t \in Ids : Solution = Cell(tris[t])

\* The pairs the inner loop marks for member it of the event being processed.
Marked(it) == mark_crossing(it, Range(iter), {}, sort_keys(current_y))

C29_Step ==
  /\ \A e \in graph' : Cardinality(e) = 2 /\ e \subseteq DOMAIN tris'
  /\ (pc = "done" /\ pc' = "idle") => graph' = {}
  /\ pc = "ix_remove" =>
       /\ graph' = graph \cup Marked(iter[pos])
       /\ Marked(iter[pos]) \subseteq graph => graph' = graph
       /\ \A it, it2 \in Range(iter) :
            {it[1], it2[1]} \in Marked(it) <=> {it2[1], it[1]} \in Marked(it2)

\* C29: well-formed graph edges.  The graph starts without edges in every
\* run; every edge joins two different triangles of the input, with ids in
\* 0..N-1; marking a pair that is adjacent already, from either of its two
\* members, leaves the graph as it was.
C29_WellFormed == graph = {} /\ [][C29_Step]_vars

\* C29 witness: a later member of the event marks, from its side, a pair
\* that an earlier member has made adjacent.
C29_Witness ==
  /\ pc = "ix_remove" /\ pos >= 2
  /\ {iter[1][1], iter[pos][1]} \in Marked(iter[pos])
  /\ {iter[1][1], iter[pos][1]} \in graph

\* How many times the event of point pt has been taken from the queue and
\* processed since the engine was built.
TimesHandled(pt) == Cardinality({k \in 1..Len(handled) : handled[k][2] = pt})

\* C30: state at the end of the sweep.  When the event queue has drained the
\* Sweep Status is empty, and the event of every entry of the Intersection
\* Index has been processed exactly once.
C30_EndOfSweep ==
  (pc \in {"idle", "done"} /\ queue = <<>>) =>
    /\ status = <<>>
    /\ \A x \in intersections : TimesHandled(x.point) = 1

\* C30 witness: a run that found several intersection points has completed.
C30_Witness ==
  /\ pc = "done" /\ queue = <<>> /\ status = <<>>
  /\ Cardinality(intersections) >= 2
  /\ Len(handled) = Cardinality(intersections)

(***************************************************************************)
(* VoronoiDiagram (src/src/util.h): the user-to-site map and the iterator  *)
(* over the edges of a cell.  Indices are those of the code, from 0; the   *)
(* k-th element of a vector is element k + 1 of the sequence.              *)
(***************************************************************************)
MaxUsers == 3
MaxSites == 2
MaxCell == 3

\* The points sites and users are taken from.
Places == {<<0, 0>>, <<4, 0>>}

\* The ranges of points handed to a constructor or to add_sites / add_users.
Ranges(n) == UNION {[1..k -> Places] : k \in 0..n}

\* The null edge pointer; the edges of a cell are 1..cell.
NULL == 0

\* vector::at: the element, or the exception for an index outside the
\* vector (a negative int converted to size_t is outside every vector).
at(v, i) == IF i >= 0 /\ i < Len(v) THEN <<"value", v[i + 1]>> ELSE <<"out_of_range">>

\* user_site(size_t user_index).
user_site(user_index) ==
  LET m == at(u2s, user_index)
  IN  IF m[1] = "out_of_range" THEN m ELSE at(sites, m[2])

\* site(size_t site_index).
site(site_index) == at(sites, site_index)

\* user_site(point_iterator user_iter), for the iterator to user number u:
\* user_iter - users_begin() is u.
user_site_iter(u) == site(u)

\* site_index(size_t user_index).
site_index(user_index) == at(u2s, user_index)

\* The squared distance of two points.
Dist2(p, q) == (p[1] - q[1]) * (p[1] - q[1]) + (p[2] - q[2]) * (p[2] - q[2])

\* The indices of the sites closest to point p.
Closest(p) ==
  {i \in 0..(Len(sites) - 1) :
     \A j \in 0..(Len(sites) - 1) : Dist2(p, sites[i + 1]) <= Dist2(p, sites[j + 1])}

\* The constructors: users and, in the first form, sites; every user unmapped.
VDInit ==
  /\ sites \in Ranges(1)
  /\ users \in Ranges(2)
  /\ u2s = [k \in 1..Len(users) |-> -1]
  /\ built = 0
  /\ cell = 0 /\ it_first = NULL /\ it_current = NULL /\ visited = <<>>
  /\ NoEngine /\ NoComponents /\ NoCell /\ NoCompare /\ NoTree

add_site ==
  /\ Len(sites) < MaxSites
  /\ \E p \in Places : sites' = Append(sites, p)
  /\ UNCHANGED <<users, u2s, built, cell, it_first, it_current, visited>>
  /\ UNCHANGED <<maxtri_vars, cc_vars, sc_vars, se_vars, tree_vars>>

add_sites ==
  /\ \E r \in Ranges(2) :
       /\ Len(sites) + Len(r) <= MaxSites
       /\ sites' = sites \o r
  /\ UNCHANGED <<users, u2s, built, cell, it_first, it_current, visited>>
  /\ UNCHANGED <<maxtri_vars, cc_vars, sc_vars, se_vars, tree_vars>>

\* add_user that leaves the map as it is.
add_user_unmapped ==
  /\ Len(users) < MaxUsers
  /\ \E p \in Places : users' = Append(users, p)
  /\ UNCHANGED <<sites, u2s, built, cell, it_first, it_current, visited>>
  /\ UNCHANGED <<maxtri_vars, cc_vars, sc_vars, se_vars, tree_vars>>

add_user ==
  /\ Len(users) < MaxUsers
  /\ \E p \in Places : users' = Append(users, p)
  /\ u2s' = Append(u2s, -1)
  /\ UNCHANGED <<sites, built, cell, it_first, it_current, visited>>
  /\ UNCHANGED <<maxtri_vars, cc_vars, sc_vars, se_vars, tree_vars>>

\* The map after the loop of add_users: -1 is appended while the map is
\* shorter than the list of n users.
pad(m, n) == m \o [k \in 1..(IF n > Len(m) THEN n - Len(m) ELSE 0) |-> -1]

add_users ==
  /\ \E r \in Ranges(2) :
       /\ Len(users) + Len(r) <= MaxUsers
       /\ users' = users \o r
       /\ u2s' = pad(u2s, Len(users \o r))
  /\ UNCHANGED <<sites, built, cell, it_first, it_current, visited>>
  /\ UNCHANGED <<maxtri_vars, cc_vars, sc_vars, se_vars, tree_vars>>

\* build(): every user is mapped to a closest site.
build ==
  /\ sites # <<>>
  /\ u2s' \in {m \in [1..Len(users) -> 0..(Len(sites) - 1)] :
                 \A k \in 1..Len(users) : m[k] \in Closest(users[k])}
  /\ built' = Len(users)
  /\ UNCHANGED <<sites, users, cell, it_first, it_current, visited>>
  /\ UNCHANGED <<maxtri_vars, cc_vars, sc_vars, se_vars, tree_vars>>

\* edge_type::next() within a cell of n edges: the edge list is circular.
next(e, n) == (e % n) + 1

\* An edge_iterator is its two members.
edge_iterator(f, c) == [first |-> f, current |-> c]

\* edge_iterator::operator==.
iter_equal(a, b) ==
  \/ a.current = NULL /\ b.current = NULL
  \/ a.first = b.first /\ a.current = b.current

\* cell_end(cell).
cell_end == edge_iterator(NULL, NULL)

\* operator++ that does not look for the first edge.
increment_on(it, n) ==
  IF it.current # NULL THEN edge_iterator(it.first, next(it.current, n)) ELSE it

\* edge_iterator::operator++ (prefix).
increment(it, n) ==
  IF it.current # NULL /\ next(it.current, n) = it.first
  THEN edge_iterator(it.first, NULL)
  ELSE IF it.current # NULL THEN edge_iterator(it.first, next(it.current, n))
  ELSE it

\* cell_begin(cell) for a cell of n edges whose incident edge is e (no
\* incident edge for n = 0).
cell_begin ==
  /\ \E n \in 0..MaxCell :
       \E e \in (IF n = 0 THEN {NULL} ELSE 1..n) :
         /\ cell' = n
         /\ it_first' = e
         /\ it_current' = e
         /\ visited' = IF e = NULL THEN <<>> ELSE <<e>>
  /\ UNCHANGED <<sites, users, u2s, built>>
  /\ UNCHANGED <<maxtri_vars, cc_vars, sc_vars, se_vars, tree_vars>>

\* ++it, for an iterator that has not gone round more than twice.
Increment ==
  /\ Len(visited) <= 2 * MaxCell
  /\ LET it == increment(edge_iterator(it_first, it_current), cell)
     IN  /\ it_first' = it.first
         /\ it_current' = it.current
         /\ visited' = IF it.current # NULL /\ it_current # NULL
                       THEN Append(visited, it.current) ELSE visited
  /\ UNCHANGED <<sites, users, u2s, built, cell>>
  /\ UNCHANGED <<maxtri_vars, cc_vars, sc_vars, se_vars, tree_vars>>

VDNext ==
  \/ add_site
  \/ add_sites
  \/ add_user
  \/ add_users
  \/ build
  \/ cell_begin
  \/ Increment

VDSpec == VDInit /\ [][VDNext]_vars

\* C31: user_site gives the site of the user.  For every user with a known
\* mapping, user_site called with the iterator to the user returns what
\* user_site called with the index of the user returns, the site
\* sites[u2s[u]].
C31_UserSite ==
  \A u \in 0..(Len(users) - 1) :
    (Len(u2s) > u /\ u2s[u + 1] >= 0) =>
      /\ user_site(u) = <<"value", sites[u2s[u + 1] + 1]>>
      /\ user_site_iter(u) = user_site(u)

C32_Step ==
  /\ Len(u2s') = Len(users')
  /\ \A k \in 1..Len(users') : k > built' => u2s'[k] = -1
  /\ users' # users =>
       /\ Len(users') > Len(users)
       /\ \A k \in 1..Len(users) : users'[k] = users[k] /\ u2s'[k] = u2s[k]

\* C32: consistency of the user-to-site map.  After construction and after
\* every add_user and add_users the map has one entry per user, every user
\* added since the last build is mapped to -1, and adding users leaves the
\* entries of the users before them as they were.
C32_MapConsistency ==
  /\ Len(u2s) = Len(users) /\ \A k \in 1..Len(users) : u2s[k] = -1
  /\ [][C32_Step]_vars

\* C32 witness: users were added after a build that mapped the users before
\* them.
C32_Witness ==
  /\ built > 0 /\ Len(users) > built /\ Len(u2s) = Len(users)
  /\ \A k \in 1..built : u2s[k] >= 0
  /\ u2s[Len(users)] = -1

\* No edge occurs twice in v.
Once(v) == \A i, j \in 1..Len(v) : v[i] = v[j] => i = j

C33_Step ==
  LET it == edge_iterator(it_first', it_current')
  IN  /\ iter_equal(it, cell_end) <=> it_current' = NULL
      /\ it_current' # NULL =>
           /\ Len(visited') <= cell' /\ Once(visited')
           /\ visited'[Len(visited')] = it_current'
      /\ (it_current' = NULL /\ it_first' # NULL) =>
           /\ Len(visited') = cell' /\ Once(visited')
           /\ {visited'[k] : k \in 1..Len(visited')} = 1..cell'
      /\ it_current' = NULL => increment(it, cell') = it
      /\ it_first' = NULL => iter_equal(it, cell_end)

\* C33: the traversal of the edges of a cell terminates.  From
\* cell_begin(cell) the iterator stands on every edge of the circular list
\* once, in at most as many steps as the cell has edges, and then equals
\* cell_end(cell); incrementing it there leaves it there; for a cell without
\* incident edge cell_begin equals cell_end.
C33_Traversal == [][C33_Step]_vars

\* C33 witness: the iterator went round a cell of three edges, from an edge
\* that is not the first of the list, and is at the end.
C33_Witness ==
  /\ cell = 3 /\ it_first = 2 /\ it_current = NULL
  /\ visited = <<2, 3, 1>>

(***************************************************************************)
(* ConnectedComponents (src/src/components.h): registration of the input   *)
(* rectangles.  A rectangle is its horizontal and its vertical interval,   *)
(* <<low, high>> each; an input rectangle may give the ends of an interval *)
(* in either order.  edges_y holds the pushed edges in the order of the    *)
(* pushes; the priority queue hands them out by EdgeCompare.               *)
(***************************************************************************)
MaxRects == 3

Coords == 0..1

LOW == 0
HIGH == 1

\* The rectangles a caller may hand in.
InputRects == [h : Coords \X Coords, v : Coords \X Coords]

\* The ranges of at most n input rectangles.
RectRanges(n) == UNION {[1..k -> InputRects] : k \in 0..n}

\* RectComponent::edge(orient, dir) for the vertical orientation.
edge(r, dir) == [coord |-> r.v[dir + 1], dir |-> dir, rect_index |-> r.index, depth |-> -1]

\* RectComponent::add_edges(out, bp::VERTICAL): the HIGH edge, then the LOW.
add_edges(out, r) == out \o <<edge(r, HIGH), edge(r, LOW)>>

\* The body of the loop of add_rects that stores the intervals as given.
add_rect_as_given(cc, r) ==
  LET idx == Len(cc.rects)
      rc == [h |-> r.h, v |-> r.v, index |-> idx]
  IN  [rects |-> Append(cc.rects, rc),
       edges_y |-> add_edges(cc.edges_y, rc),
       vertexes |-> Append(cc.vertexes, idx)]

\* The body of the loop of add_rects for input rectangle r: a graph vertex
\* with the index of the rect, the intervals put in order, the rect with
\* its index, and its two horizontal edges.
add_rect(cc, r) ==
  LET idx == Len(cc.rects)
      hivl == <<Min2(r.h[1], r.h[2]), Max2(r.h[1], r.h[2])>>
      vivl == <<Min2(r.v[1], r.v[2]), Max2(r.v[1], r.v[2])>>
      rc == [h |-> hivl, v |-> vivl, index |-> idx]
  IN  [rects |-> Append(cc.rects, rc),
       edges_y |-> add_edges(cc.edges_y, rc),
       vertexes |-> Append(cc.vertexes, idx)]

RECURSIVE add_rects(_, _)
add_rects(cc, range) ==
  IF range = <<>> THEN cc ELSE add_rects(add_rect(cc, Head(range)), Tail(range))

\* ConnectedComponents without input.
EmptyComponents == [rects |-> <<>>, edges_y |-> <<>>, vertexes |-> <<>>]

\* The two constructors: no input, or a range of rectangles.
CCInit ==
  /\ \E range \in RectRanges(1) :
       LET cc == add_rects(EmptyComponents, range)
       IN  rects = cc.rects /\ edges_y = cc.edges_y /\ vertexes = cc.vertexes
  /\ NoEngine /\ NoDiagram /\ NoCell /\ NoCompare /\ NoTree

AddRects ==
  /\ \E range \in RectRanges(2) :
       /\ Len(rects) + Len(range) <= MaxRects
       /\ LET cc == add_rects([rects |-> rects, edges_y |-> edges_y, vertexes |-> vertexes], range)
          IN  rects' = cc.rects /\ edges_y' = cc.edges_y /\ vertexes' = cc.vertexes
  /\ UNCHANGED <<maxtri_vars, vd_vars, sc_vars, se_vars, tree_vars>>

CCNext == AddRects

CCSpec == CCInit /\ [][CCNext]_vars

\* How many entries of sequence q satisfy being the dir edge of rect i.
EdgesOf(q, i, dir) == Cardinality({k \in 1..Len(q) : q[k].rect_index = i /\ q[k].dir = dir})

\* C34: registration of rectangles.  After every add_rects the rect at
\* position i has index i, the graph has one vertex per rect (vertex i with
\* index i), the queue of horizontal edges holds two edges per rect, its
\* HIGH edge and its LOW edge, tagged with the index of the rect, and every
\* rect has low <= high on both axes.
C34_Registration ==
  /\ Len(vertexes) = Len(rects)
  /\ Len(edges_y) = 2 * Len(rects)
  /\ \A i \in 0..(Len(rects) - 1) :
       LET r == rects[i + 1]
       IN  /\ r.index = i
           /\ vertexes[i + 1] = i
           /\ r.h[1] <= r.h[2] /\ r.v[1] <= r.v[2]
           /\ EdgesOf(edges_y, i, HIGH) = 1 /\ EdgesOf(edges_y, i, LOW) = 1
           /\ \A k \in 1..Len(edges_y) :
                edges_y[k].rect_index = i => edges_y[k].coord = r.v[edges_y[k].dir + 1]

\* C34 witness: rects were added in two calls, one of them with the ends of
\* both intervals given high end first.
C34_Witness ==
  /\ Len(rects) = 3
  /\ rects[2] = [h |-> <<0, 1>>, v |-> <<0, 1>>, index |-> 1]
  /\ edges_y[3] = [coord |-> 1, dir |-> HIGH, rect_index |-> 1, depth |-> -1]

(***************************************************************************)
(* SolutionCell (src/src/components.h).  top, left, right and bot are ints *)
(* (a rect index, or -1); source_rects_ is a set of size_t, and an int     *)
(* that is inserted is converted to size_t.                                *)
(***************************************************************************)
\* How many non-negative values set_bot is given in the model.
MaxGiven == 3

\* The ints a cell is built from, and the ints given as bottom.
CellIndices == {-1, 0, 1}
Bottoms == {-1, 0, 3}

LEFT == 0
RIGHT == 1

\* The conversion of a 32-bit int to a 32-bit size_t, as the pair of its
\* upper and lower 16 bits.
to_size_t(i) == <<(i \div 65536) % 65536, i % 65536>>

\* set_bot without the test of the current bottom.
set_bot_again(bot, source_rects, new_bot) ==
  IF new_bot >= 0
  THEN [bot_ |-> new_bot, source_rects_ |-> source_rects \cup {to_size_t(new_bot)}]
  ELSE [bot_ |-> bot, source_rects_ |-> source_rects]

\* set_bot(new_bot) on a cell with bottom bot and source set source_rects.
set_bot(bot, source_rects, new_bot) ==
  IF bot < 0 /\ new_bot >= 0
  THEN [bot_ |-> new_bot, source_rects_ |-> source_rects \cup {to_size_t(new_bot)}]
  ELSE [bot_ |-> bot, source_rects_ |-> source_rects]

\* marked(void).
marked == hit_left_ \/ hit_right_

\* SolutionCell(top, left, right).
SCInit ==
  /\ top_ \in CellIndices /\ left_ \in CellIndices /\ right_ \in CellIndices
  /\ bot_ = -1
  /\ hit_left_ = FALSE /\ hit_right_ = FALSE
  /\ source_rects_ = {to_size_t(top_), to_size_t(left_), to_size_t(right_)}
  /\ ret = "void" /\ given = <<>>
  /\ NoEngine /\ NoDiagram /\ NoComponents /\ NoCompare /\ NoTree

\* found(dir).
Found ==
  /\ \E dir \in {LEFT, RIGHT} :
       /\ hit_left_' = (hit_left_ \/ dir = LEFT)
       /\ hit_right_' = (hit_right_ \/ dir = RIGHT)
  /\ ret' = "void"
  /\ UNCHANGED <<top_, bot_, left_, right_, source_rects_, given>>
  /\ UNCHANGED <<maxtri_vars, vd_vars, cc_vars, se_vars, tree_vars>>

\* set_bot(new_bot), called directly.
SetBot ==
  /\ Len(given) < MaxGiven
  /\ \E new_bot \in Bottoms :
       LET c == set_bot(bot_, source_rects_, new_bot)
       IN  /\ bot_' = c.bot_
           /\ source_rects_' = c.source_rects_
           /\ given' = IF new_bot >= 0 THEN Append(given, new_bot) ELSE given
  /\ ret' = "void"
  /\ UNCHANGED <<top_, left_, right_, hit_left_, hit_right_>>
  /\ UNCHANGED <<maxtri_vars, vd_vars, cc_vars, se_vars, tree_vars>>

\* marked(bot).
MarkedBot ==
  /\ Len(given) < MaxGiven
  /\ \E bot \in Bottoms :
       IF marked
       THEN LET c == set_bot(bot_, source_rects_, bot)
            IN  /\ bot_' = c.bot_
                /\ source_rects_' = c.source_rects_
                /\ given' = IF bot >= 0 THEN Append(given, bot) ELSE given
                /\ ret' = "true"
       ELSE /\ ret' = "false"
            /\ UNCHANGED <<bot_, source_rects_, given>>
  /\ UNCHANGED <<top_, left_, right_, hit_left_, hit_right_>>
  /\ UNCHANGED <<maxtri_vars, vd_vars, cc_vars, se_vars, tree_vars>>

SCNext ==
  \/ Found
  \/ SetBot
  \/ MarkedBot

SCSpec == SCInit /\ [][SCNext]_vars

C35_Step ==
  /\ bot_' = IF given' = <<>> THEN -1 ELSE given'[1]
  /\ bot_ >= 0 => bot_' = bot_
  /\ source_rects_' = {to_size_t(top_'), to_size_t(left_'), to_size_t(right_')}
                        \cup (IF bot_' >= 0 THEN {to_size_t(bot_')} ELSE {})
  /\ ret' = "true" => marked
  /\ ret' = "false" =>
       /\ ~marked
       /\ UNCHANGED <<bot_, source_rects_, hit_left_, hit_right_, given>>
  /\ <<top_', left_', right_'>> = <<top_, left_, right_>>

\* C35: the bottom of a SolutionCell is set once.  bot is -1 or the first
\* non-negative value given to set_bot, directly or through marked(bot) on
\* a marked cell; once set it does not change; marked(bot) on an unmarked
\* cell returns false and changes nothing; the source set is top, left and
\* right, and bot once it is set.
C35_BottomOnce ==
  /\ bot_ = -1 /\ source_rects_ = {to_size_t(top_), to_size_t(left_), to_size_t(right_)}
  /\ [][C35_Step]_vars

\* C35 witness: a marked cell whose bottom was set through marked(bot) and
\* that was given another bottom afterwards.
C35_Witness ==
  /\ marked /\ ret = "true"
  /\ given = <<3, 0>> /\ bot_ = 3
  /\ top_ = -1 /\ to_size_t(3) \in source_rects_ /\ to_size_t(0) \notin source_rects_

(***************************************************************************)
(* SolutionEdge and SolutionCompare (src/src/components.h).                *)
(***************************************************************************)
\* The edges and solution edges the comparisons are applied to.
SomeEdges == [coord : 0..1, dir : {LOW, HIGH}, rect_index : 0..1, depth : {-1}]
SolutionEdges == [edge : SomeEdges, solution : {-1, 0}]

\* EdgeCompare::operator().
EdgeCompare(e1, e2) ==
  \/ e1.coord < e2.coord
  \/ e1.coord = e2.coord /\ e1.rect_index < e2.rect_index

\* SolutionCompare::operator() for two solution edges.
SolutionCompare(a, b) ==
  \/ EdgeCompare(a.edge, b.edge)
  \/ ~EdgeCompare(b.edge, a.edge) /\ a.solution = b.solution

\* SolutionEdge::operator== for two solution edges.
sedge_equal(a, b) == ~SolutionCompare(a, b) /\ ~SolutionCompare(b, a)

SEInit ==
  /\ s1 \in SolutionEdges /\ s2 \in SolutionEdges
  /\ result = <<>>
  /\ NoEngine /\ NoDiagram /\ NoComponents /\ NoCell /\ NoTree

\* s1 < s2.
Less ==
  /\ result' = <<"<", SolutionCompare(s1, s2)>>
  /\ UNCHANGED <<s1, s2>>
  /\ UNCHANGED <<maxtri_vars, vd_vars, cc_vars, sc_vars, tree_vars>>

\* s1 == s2.
Equal ==
  /\ result' = <<"==", sedge_equal(s1, s2)>>
  /\ UNCHANGED <<s1, s2>>
  /\ UNCHANGED <<maxtri_vars, vd_vars, cc_vars, sc_vars, tree_vars>>

\* s2 < s1: the comparator with the operands exchanged.
Greater ==
  /\ result' = <<">", SolutionCompare(s2, s1)>>
  /\ UNCHANGED <<s1, s2>>
  /\ UNCHANGED <<maxtri_vars, vd_vars, cc_vars, sc_vars, tree_vars>>

SENext ==
  \/ Less
  \/ Equal
  \/ Greater

SESpec == SEInit /\ [][SENext]_vars

\* C36: SolutionCompare is a strict weak ordering.  No solution edge is less
\* than itself, no two solution edges are each less than the other, and
\* every solution edge equals itself under operator==.
C36_StrictWeakOrder ==
  /\ ~SolutionCompare(s1, s1)
  /\ ~(SolutionCompare(s1, s2) /\ SolutionCompare(s2, s1))
  /\ sedge_equal(s1, s1)
  /\ result = <<"<", TRUE>> => SolutionCompare(s1, s2) /\ ~SolutionCompare(s2, s1)
  /\ (result = <<"==", FALSE>>) => s1 # s2

\* ---------------------------------------------------------------------
\* l23_tree and l23_inode (l23tree.h): a 2-3 tree whose values are in the
\* leaves.  A leaf is modelled by its key, the null pointer by NULL.  A node
\* is a record of its leaf array, its two key copies, its child count and
\* the leaves_ flag; <<>> is a root pointer that is null.  A node of this
\* model never has a parent: insert_internal, the only function that would
\* link one, has an empty body.
\* ---------------------------------------------------------------------
MaxKey == 4

Keys == 1..MaxKey

NoNode == <<>>

max_count == 3

max_keys == 2

\* The outcomes of find_unique and of lower_bound_checked.
end == <<"end">>

undefined == <<"undefined">>

leafp(i) == <<"leaf", i>>

child_count(n) == n.child_count_

\* parent_ is set by link, which is called for the children a node takes
\* in; the nodes here are children of no node.
parent(n) == NULL

\* has_leaves returns the member "leaf_", which the class does not have;
\* the only flag of that meaning is leaves_.
has_leaves(n) == n.leaves_

leaf_count(n) == IF has_leaves(n) THEN child_count(n) ELSE 0

leaf(n, i) == n.leaves[i + 1]

key(n, i) == n.keys_[i + 1]

full(n) == child_count(n) = max_count

\* key_count is std::max(child_count(), 2u).
key_count(n) == Max2(child_count(n), 2)

\* key_compare is std::less on the keys.
compare(k1, k2) == k1 < k2

equal(k1, k2) == compare(k1, k2) /\ compare(k2, k1)

less_equal(k1, k2) == ~compare(k2, k1)

less(k1, k2) == compare(k1, k2)

\* l23_inode(): no children, no leaves.
l23_inode_default ==
  [leaves |-> <<NULL, NULL, NULL>>, keys_ |-> <<0, 0>>,
   child_count_ |-> 0, leaves_ |-> FALSE]

\* l23_inode(left, middle): a leaf container of two leaves.
l23_inode_pair(left, middle) ==
  [leaves |-> <<left, middle, NULL>>, keys_ |-> <<left, middle>>,
   child_count_ |-> 2, leaves_ |-> TRUE]

\* new inode_type(value) of insert_unique.  The class has no constructor
\* from a value; the branch of insert_unique that follows it ("root has
\* only one node") expects a leaf container of the one leaf.
l23_inode_single(value) ==
  [leaves |-> <<value, NULL, NULL>>, keys_ |-> <<value, 0>>,
   child_count_ |-> 1, leaves_ |-> TRUE]

\* The leaf array after the loop and the store of insert_leaf(new_leaf,
\* index): the leaves from index on move up by one slot.
shift_in(n, new_leaf, index) ==
  [j \in 1..max_count |->
     IF j - 1 < index THEN n.leaves[j]
     ELSE IF j - 1 = index THEN new_leaf
     ELSE n.leaves[j - 1]]

\* set_leaf(index, node) calls node->link(this, index) before it stores
\* the pointer: with a null node that is a call through a null pointer.
\* The loop of insert_leaf passes leaf(lidx-1) for lidx = 2 down to
\* index + 1.
shift_defined(n, index) ==
  \A lidx \in (index + 1)..(max_count - 1) : leaf(n, lidx - 1) # NULL

\* fix_leaf_keys: keys_[kidx] = leaf(kidx)->key() for kidx < key_count().
\* It is defined when every leaf it reads exists and every key it writes
\* is inside the array of two.
fix_defined(n) ==
  /\ key_count(n) <= max_keys
  /\ \A kidx \in 0..(key_count(n) - 1) : leaf(n, kidx) # NULL

\* The key arrays fix_leaf_keys can leave: the key of a leaf that exists,
\* any value for a key read through a null leaf; a write behind the array
\* does not reach it.
fix_leaf_keys(n) ==
  {ks \in [1..max_keys -> 0..MaxKey] :
     \A j \in 1..max_keys : n.leaves[j] # NULL => ks[j] = n.leaves[j]}

\* l23_inode::insert_leaf(new_leaf, index) on a node that is not full, with
\* index < 3: whether its behaviour is defined, and the nodes it can leave.
insert_leaf_defined(n, index) ==
  /\ shift_defined(n, index)
  /\ fix_defined([n EXCEPT !.leaves = shift_in(n, 0, index),
                           !.leaves[index + 1] = 1,
                           !.child_count_ = @ + 1])

insert_leaf(n, new_leaf, index) ==
  LET m == [n EXCEPT !.leaves = shift_in(n, new_leaf, index),
                     !.child_count_ = @ + 1,
                     !.leaves_ = TRUE]
  IN {[m EXCEPT !.keys_ = ks] : ks \in fix_leaf_keys(m)}

\* l23_inode::pop_leaf on a node with leaves: the count goes down and the
\* slot of the last leaf is cleared by set_leaf(child_count(), nullptr),
\* a call through a null pointer.
pop_leaf(n) ==
  [n EXCEPT !.child_count_ = @ - 1, !.leaves[child_count(n)] = NULL]

\* child_index_generic: the first i < 3 with k <= key(i).  key(2) is
\* behind the array of two keys.
child_index_generic(n, k) ==
  IF less_equal(k, key(n, 0)) THEN 0
  ELSE IF less_equal(k, key(n, 1)) THEN 1
  ELSE 2

\* child_index_insert: the first i < child_count() with k < key(i), or
\* child_count().
child_index_insert(n, k) ==
  LET hits == {i \in 0..(Min2(child_count(n), max_keys) - 1) : less(k, key(n, i))}
  IN IF hits # {} THEN CHOOSE i \in hits : \A j \in hits : i <= j
     ELSE child_count(n)

\* lower_bound_generic on a root that holds leaves.  The iterator is built
\* from the leaf pointer, which it dereferences.
lower_bound_generic(r, k) ==
  IF ~has_leaves(r) THEN end
  ELSE LET i == child_index_generic(r, k)
       IN IF i >= max_keys \/ leaf(r, i) = NULL THEN undefined ELSE leafp(i)

\* lower_bound_checked.  root()->count() is read as child_count(): the
\* class has no member count.
lower_bound_checked(r, k) ==
  IF r = NoNode \/ child_count(r) = 0 THEN end
  ELSE IF child_count(r) = 1
  THEN IF equal(k, key(r, 0)) THEN leafp(0) ELSE end
  ELSE lower_bound_generic(r, k)

\* find_unique.  "iterator(node, leaf_idx)" names nothing that is declared;
\* it is read as the iterator lower_bound_checked returned.
l23_find_unique(r, k) ==
  LET lb == lower_bound_checked(r, k)
  IN IF lb = end \/ lb = undefined THEN lb
     ELSE IF leaf(r, lb[2]) = NULL THEN end
     ELSE IF ~compare(leaf(r, lb[2]), k) THEN lb
     ELSE end

TreeInit ==
  /\ root_ = NoNode /\ node = NoNode /\ inserted = {} /\ tstate = "ok"
  /\ NoEngine /\ NoDiagram /\ NoComponents /\ NoCell /\ NoCompare

\* The program has left the defined behaviour of the language: nothing is
\* known about what it does next.
Undefined ==
  /\ tstate' = "undefined"
  /\ UNCHANGED <<root_, node, inserted>>

\* insert_unique(value) with a key that is not in the tree: the first value
\* makes the root.
InsertFirst(value) ==
  /\ root_ = NoNode
  /\ root_' = l23_inode_single(value)
  /\ inserted' = inserted \cup {value}
  /\ UNCHANGED <<node, tstate>>

\* insert_unique(value) on a root of one leaf: the root takes the leaf at
\* position 0 or 1.
InsertSecond(value) ==
  /\ root_ # NoNode /\ child_count(root_) = 1
  /\ LET at_pos == IF compare(value, leaf(root_, 0)) THEN 0 ELSE 1
     IN \/ /\ root_' \in insert_leaf(root_, value, at_pos)
           /\ inserted' = inserted \cup {value}
           /\ UNCHANGED <<node, tstate>>
        \/ /\ ~insert_leaf_defined(root_, at_pos)
           /\ Undefined

\* insert_unique(value) in the general case.  "insert_internal(value)"
\* matches no declaration; l23_tree::insert_leaf(value) is the function
\* that inserts a value.  lower_bound_insert builds an iterator from
\* leaf(i), a null pointer when i is the child count; otherwise
\* insert_leaf calls parent->insert_leaf with leafp.parent(), the parent
\* of the node that holds the leaf, which is null for the root.
InsertGeneral(value) ==
  /\ root_ # NoNode /\ child_count(root_) # 1
  /\ LET i == child_index_insert(root_, value)
     IN i >= max_count \/ leaf(root_, i) = NULL \/ parent(root_) = NULL
  /\ Undefined

insert_unique(value) ==
  \/ InsertFirst(value)
  \/ InsertSecond(value)
  \/ InsertGeneral(value)

InsertUnique ==
  /\ tstate = "ok"
  /\ \E value \in Keys \ inserted : insert_unique(value)
  /\ UNCHANGED <<maxtri_vars, vd_vars, cc_vars, sc_vars, se_vars>>

\* A node of its own is made by one of the two constructors.
NewNode ==
  /\ tstate = "ok"
  /\ \/ node' = l23_inode_default
     \/ \E left, middle \in Keys :
          /\ left < middle
          /\ node' = l23_inode_pair(left, middle)
  /\ UNCHANGED <<root_, inserted, tstate>>
  /\ UNCHANGED <<maxtri_vars, vd_vars, cc_vars, sc_vars, se_vars>>

\* add_leaf(value) on the node, with a value above its leaves: the new
\* leaf goes in at leaf_count().  A full node refuses.
AddLeaf ==
  /\ tstate = "ok" /\ node # NoNode
  /\ \E value \in Keys :
       /\ \A j \in 1..max_count : node.leaves[j] < value
       /\ IF full(node) \/ leaf_count(node) >= max_count
          THEN UNCHANGED tree_vars
          ELSE \/ /\ node' \in insert_leaf(node, value, leaf_count(node))
                  /\ UNCHANGED <<root_, inserted, tstate>>
               \/ /\ ~insert_leaf_defined(node, leaf_count(node))
                  /\ Undefined
  /\ UNCHANGED <<maxtri_vars, vd_vars, cc_vars, sc_vars, se_vars>>

\* pop_leaf() on the node.
PopLeaf ==
  /\ tstate = "ok" /\ node # NoNode
  /\ IF leaf_count(node) = 0
     THEN UNCHANGED tree_vars
     ELSE \/ /\ node' = pop_leaf(node)
             /\ UNCHANGED <<root_, inserted, tstate>>
          \/ Undefined
  /\ UNCHANGED <<maxtri_vars, vd_vars, cc_vars, sc_vars, se_vars>>

TreeNext ==
  \/ InsertUnique
  \/ NewNode
  \/ AddLeaf
  \/ PopLeaf

TreeSpec == TreeInit /\ [][TreeNext]_vars

\* Whether find_unique(k) on the tree returns an iterator to the leaf of
\* key k.
Finds(k) ==
  LET f == l23_find_unique(root_, k)
  IN f # end /\ f # undefined /\ leaf(root_, f[2]) = k

\* The leaves of a node, from left to right.
LeavesOf(n) == [j \in 1..child_count(n) |-> n.leaves[j]]

\* C37: after any sequence of insert_unique calls with distinct keys that
\* has completed, find_unique finds every inserted key, the leaves of the
\* tree are exactly the inserted keys in ascending order, and the root has
\* two or three children unless the tree holds fewer than two values.
C37_Insertion ==
  (tstate = "ok" /\ root_ # NoNode) =>
    /\ \A k \in inserted : Finds(k)
    /\ Range(LeavesOf(root_)) = inserted
    /\ \A a, b \in 1..child_count(root_) :
         a < b => compare(root_.leaves[a], root_.leaves[b])
    /\ Cardinality(inserted) >= 2 => child_count(root_) \in {2, 3}

\* The key count the node documents for a child count.
DocumentedKeys(c) ==
  CASE c = 0 -> 0
    [] c = 1 -> 1
    [] c = 2 -> 2
    [] c = 3 -> 2

\* C38: key_count() of a node with 0 children is 0, with 1 or 2 children
\* it is 1 or 2, with 3 children it is 2; it never exceeds 2.
C38_KeyCount ==
  \A n \in {root_, node} \ {NoNode} :
    /\ key_count(n) = DocumentedKeys(child_count(n))
    /\ key_count(n) <= max_keys
====
